---- MODULE Spec2Model ----
(***************************************************************************)
(* Model of the pull-request autofix orchestrator of python-autofix-pro:   *)
(* app-server/src/index.ts (handlePullRequestEvent and its helpers),       *)
(* github/checks.ts (check runs and the settings issue adapter),           *)
(* github/pullRequests.ts, github/comments.ts, utils/plan.ts and           *)
(* autofix/runner.ts (runAutofix).                                         *)
(*                                                                         *)
(* Every await of the handler is one action: the code between two awaits   *)
(* runs without interruption on the single-threaded event loop.  External  *)
(* collaborators (the hosting platform, git, ruff, black, the file system) *)
(* answer nondeterministically: a call returns or throws.                  *)
(***************************************************************************)
EXTENDS Integers, Sequences, FiniteSets, TLC

(* ------------------------------------------------------------------ *)
(* Bounds of the model                                                 *)
(* ------------------------------------------------------------------ *)
\* handler tasks that may exist at once (webhooks.on dispatches each event
\* to its own async task)
NumTasks == 2
\* distinct head commits a pull request moves between
NumShas == 2
\* human edits of the settings issue in one behaviour
MaxEdits == 2

Tasks == 1..NumTasks
Shas == 1..NumShas
\* the pull request the events are about (owner "octo-org", repo "demo")
Pulls == {7}

(* ------------------------------------------------------------------ *)
(* Values                                                              *)
(* ------------------------------------------------------------------ *)
CheckRunName == {"CI/check", "CI/autofix"}
checkRuns_Duplicate == <<"CI/check", "CI/check">>

checkRuns == <<"CI/check", "CI/autofix">>

supportedActions_WithClosed ==
    {"opened", "synchronize", "reopened", "ready_for_review", "closed"}

supportedActions == {"opened", "synchronize", "reopened", "ready_for_review"}

unsafeFixesAdminSkipMessage ==
    "Unsafe fixes requested but not enabled by a repo admin; skipping."

SkippedSummary == <<"Skipped: no Python changes.">>
Title == "Python Autofix Pro"

\* text of a check output that was not given (undefined)
NoText == <<"undefined">>

\* installations known to the environment; 0 stands for a payload without
\* installation.id
FreeInstallation == 11
ProInstallation == 22
PRO_INSTALLATION_IDS == {ProInstallation}

\* repository users and the permission the platform reports for each
Logins == {"alice", "bob"}
PermissionOf(login) == IF login = "alice" THEN "admin" ELSE "write"

\* HTTP statuses a failing platform call carries (0: an error without status)
HttpErrors == {403, 404, 422, 500}

\* the error of a rejected check-run update
UpdateError == [status |-> 422, message |-> <<"Validation Failed">>]

VARIABLES
    ev,                      \* per task: the locals of handlePullRequestEvent and what it observed
    checkStore,              \* platform: check runs by id
    lastCommentedShaByPull,  \* index.ts: the comment dedup ledger
    comments,                \* platform: comments posted per (pull, sha)
    settingsIssue,           \* platform: the "Python Autofix Pro Settings" issue
    enabledByActor,          \* who made the edit that turned enableUnsafeFixes on
    edits                    \* number of human edits of the settings issue

vars == <<ev, checkStore, lastCommentedShaByPull, comments, settingsIssue,
          enabledByActor, edits>>

(* ------------------------------------------------------------------ *)
(* github/pullRequests.ts                                              *)
(* ------------------------------------------------------------------ *)
NullContext ==
    [owner |-> "", repo |-> "", pullNumber |-> 0, headSha |-> 0,
     headRef |-> "", headRepoFullName |-> "", htmlUrl |-> ""]

\* A payload field that is absent (undefined) is modelled by the falsy value
\* of its type: "" for strings, 0 for numbers; the head sha is a number here.
extractPullRequestContext_NoShaCheck(payload) ==
    IF \/ payload.owner = ""
       \/ payload.repo = ""
       \/ payload.number = 0
       \/ payload.ref = ""
       \/ payload.full_name = ""
       \/ payload.html_url = ""
    THEN NullContext
    ELSE [owner |-> payload.owner, repo |-> payload.repo,
          pullNumber |-> payload.number, headSha |-> payload.sha,
          headRef |-> payload.ref, headRepoFullName |-> payload.full_name,
          htmlUrl |-> payload.html_url]

extractPullRequestContext(payload) ==
    IF \/ payload.owner = ""
       \/ payload.repo = ""
       \/ payload.number = 0
       \/ payload.sha = 0
       \/ payload.ref = ""
       \/ payload.full_name = ""
       \/ payload.html_url = ""
    THEN NullContext
    ELSE [owner |-> payload.owner, repo |-> payload.repo,
          pullNumber |-> payload.number, headSha |-> payload.sha,
          headRef |-> payload.ref, headRepoFullName |-> payload.full_name,
          htmlUrl |-> payload.html_url]

\* file names are sequences of characters
EndsWith(s, suffix) ==
    /\ Len(s) >= Len(suffix)
    /\ SubSeq(s, Len(s) - Len(suffix) + 1, Len(s)) = suffix

DotPy == <<".", "p", "y">>

containsPythonChanges_Substring(files) ==
    \E i \in 1..Len(files) :
        \E k \in 1..Len(files[i]) :
            k + 2 <= Len(files[i]) /\ SubSeq(files[i], k, k + 2) = DotPy

containsPythonChanges(files) ==
    \E i \in 1..Len(files) : EndsWith(files[i], DotPy)

\* changed-file lists the platform may report
ReadmeMd == <<"R", ".", "m", "d">>
APy == <<"a", ".", "p", "y">>
APyc == <<"a", ".", "p", "y", "c">>
FileLists == { <<>>, <<ReadmeMd>>, <<ReadmeMd, APyc>>, <<ReadmeMd, APy>> }

(* ------------------------------------------------------------------ *)
(* utils/plan.ts                                                       *)
(* ------------------------------------------------------------------ *)
\* process.env.PLAN_OVERRIDE: unset, as the deployed process runs (the
\* override is an environment switch for local smoke tests)
PLAN_OVERRIDE == ""

getPlanForInstallation(installationId) ==
    IF PLAN_OVERRIDE = "pro" THEN "pro"
    ELSE IF installationId \in PRO_INSTALLATION_IDS THEN "pro" ELSE "free"

(* ------------------------------------------------------------------ *)
(* github/checks.ts: check outputs                                     *)
(* ------------------------------------------------------------------ *)
buildCheckOutput(output) ==
    [title |-> output.title, summary |-> output.summary,
     text |-> IF output.text = NoText THEN <<"">> ELSE output.text]

inProgressOutput ==
    [title |-> Title, summary |-> <<"Autofix started.">>, text |-> NoText]

\* createCheckRun: the parameters of its checks.create request; a
\* conclusion that was not given is ""
CreateParams_RawOutput(input) ==
    [owner |-> input.owner, repo |-> input.repo, name |-> input.name,
     head_sha |-> input.headSha, status |-> input.status,
     conclusion |-> input.conclusion, output |-> input.output]

CreateParams(input) ==
    [owner |-> input.owner, repo |-> input.repo, name |-> input.name,
     head_sha |-> input.headSha, status |-> input.status,
     conclusion |-> input.conclusion, output |-> buildCheckOutput(input.output)]

\* the platform's record of the check run a request of task t created
PlatformRun(params, t) ==
    [name |-> params.name, head_sha |-> params.head_sha, status |-> params.status,
     conclusion |-> params.conclusion, output |-> params.output,
     owner |-> params.owner, repo |-> params.repo, updates |-> 0, task |-> t]

NoCheckRun ==
    [name |-> "", head_sha |-> 0, status |-> "none", conclusion |-> "",
     output |-> buildCheckOutput(inProgressOutput),
     owner |-> "", repo |-> "", updates |-> 0, task |-> 0]

CheckIds == 1..(2 * NumTasks)

(* ------------------------------------------------------------------ *)
(* github/checks.ts: the settings issue adapter                        *)
(* ------------------------------------------------------------------ *)
\* The body of the settings issue.  kind: "empty" (no text), "garbage" (not
\* JSON, or JSON that is no object) or "object".  enableUnsafeFixes: "true",
\* "false" or "other" (absent or no boolean).  unsafeFixesEnabledBy: a login,
\* or "" when absent, null or malformed.  unsafeFixesEnabledAt: a timestamp,
\* or "" when absent or no string.  unknown: the other keys of the object.
PlainBody(kind) ==
    [kind |-> kind, enableUnsafeFixes |-> "other", unsafeFixesEnabledBy |-> "",
     unsafeFixesEnabledAt |-> "", unknown |-> {}]

ObjectBody(enable, by, at) ==
    [kind |-> "object", enableUnsafeFixes |-> enable, unsafeFixesEnabledBy |-> by,
     unsafeFixesEnabledAt |-> at, unknown |-> {}]

defaultSettings ==
    [enableUnsafeFixes |-> FALSE, unsafeFixesEnabledBy |-> "",
     unsafeFixesEnabledAt |-> ""]

parseSettingsIssueBody_Truthy(body) ==
    IF body.kind # "object"
    THEN [settings |-> defaultSettings, hasRaw |-> FALSE, raw |-> body]
    ELSE [settings |->
            [enableUnsafeFixes |-> (body.enableUnsafeFixes # "false"),
             unsafeFixesEnabledBy |-> body.unsafeFixesEnabledBy,
             unsafeFixesEnabledAt |-> body.unsafeFixesEnabledAt],
          hasRaw |-> TRUE, raw |-> body]

parseSettingsIssueBody(body) ==
    IF body.kind # "object"
    THEN [settings |-> defaultSettings, hasRaw |-> FALSE, raw |-> body]
    ELSE [settings |->
            [enableUnsafeFixes |-> (body.enableUnsafeFixes = "true"),
             unsafeFixesEnabledBy |-> body.unsafeFixesEnabledBy,
             unsafeFixesEnabledAt |-> body.unsafeFixesEnabledAt],
          hasRaw |-> TRUE, raw |-> body]

serializeSettingsBody_Fresh(raw, settings) ==
    ObjectBody(IF settings.enableUnsafeFixes THEN "true" ELSE "false",
               settings.unsafeFixesEnabledBy, settings.unsafeFixesEnabledAt)

\* the spread of raw keeps its other keys
serializeSettingsBody(raw, settings) ==
    [raw EXCEPT
        !.enableUnsafeFixes = IF settings.enableUnsafeFixes THEN "true" ELSE "false",
        !.unsafeFixesEnabledBy = settings.unsafeFixesEnabledBy,
        !.unsafeFixesEnabledAt = settings.unsafeFixesEnabledAt]

NoIssue ==
    [exists |-> FALSE, user |-> "", updated_at |-> "", body |-> PlainBody("empty")]

\* the enabler the adapter attributes: the recorded one, else the issue's author
AttributedEnabler_RecordedOnly(issue, settings) ==
    settings.unsafeFixesEnabledBy

AttributedEnabler(issue, settings) ==
    IF settings.unsafeFixesEnabledBy # "" THEN settings.unsafeFixesEnabledBy
    ELSE issue.user

AttributedAt(issue, settings) ==
    IF settings.unsafeFixesEnabledAt # "" THEN settings.unsafeFixesEnabledAt
    ELSE issue.updated_at

NeedsUpdate_Always(settings) == TRUE

\* getRepoSettingsFromIssue: needsUpdate
NeedsUpdate(settings) ==
    settings.unsafeFixesEnabledBy = "" \/ settings.unsafeFixesEnabledAt = ""

\* What getRepoSettingsFromIssue computes from the issue list once it is
\* returned: the settings to return and, when attribution is to be
\* backfilled, the body to write.
ReadSettings(issue) ==
    IF ~issue.exists
    THEN [settings |-> defaultSettings, write |-> FALSE, body |-> issue.body]
    ELSE LET parsed == parseSettingsIssueBody(issue.body)
             settings == parsed.settings
             enabledBy == AttributedEnabler(issue, settings)
             enabledAt == AttributedAt(issue, settings)
             needsUpdate == NeedsUpdate(settings)
             updated == [settings EXCEPT !.unsafeFixesEnabledBy = enabledBy,
                                         !.unsafeFixesEnabledAt = enabledAt]
         IN  IF ~settings.enableUnsafeFixes
             THEN [settings |-> settings, write |-> FALSE, body |-> issue.body]
             ELSE [settings |-> updated,
                   write |-> /\ needsUpdate
                             /\ parsed.hasRaw
                             /\ enabledBy # ""
                             /\ enabledAt # "",
                   body |-> serializeSettingsBody(parsed.raw, updated)]

(* ------------------------------------------------------------------ *)
(* index.ts: authorization                                             *)
(* ------------------------------------------------------------------ *)
NoSetting == [requested |-> FALSE, adminVerified |-> FALSE, skipReason |-> ""]

\* verifyRepoAdmin: lookup is what the permission call did: the permission it
\* returned, or "throw"
verifyRepoAdmin_FailOpen(lookup) == lookup = "admin" \/ lookup = "throw"

verifyRepoAdmin(lookup) == lookup = "admin"

\* resolveUnsafeFixesSetting after the permission lookup
ResolveVerified(adminVerified) ==
    IF adminVerified
    THEN [requested |-> TRUE, adminVerified |-> TRUE, skipReason |-> ""]
    ELSE [requested |-> TRUE, adminVerified |-> FALSE,
          skipReason |-> unsafeFixesAdminSkipMessage]

UnsafeGate_NoPlan(plan, setting) ==
    setting.requested /\ setting.adminVerified

UnsafeGate(plan, setting) ==
    plan = "pro" /\ setting.requested /\ setting.adminVerified

(* ------------------------------------------------------------------ *)
(* index.ts: failure output                                            *)
(* ------------------------------------------------------------------ *)
NoError == [status |-> 0, message |-> <<>>]

\* A text is a sequence of words.  The words that matter to sanitizeText
\* are the three prefixes it looks for, the characters that end a match
\* ("@", "&" and the blank) and its replacement; "ghs_secret" is the
\* installation token; every other word is text without these characters.

\* the position of the first "@" of value from position i on, 0 if none
RECURSIVE FirstAt(_, _)
FirstAt(value, i) ==
    IF i > Len(value) THEN 0
    ELSE IF value[i] = "@" THEN i
    ELSE FirstAt(value, i + 1)

\* replace(/x-access-token:[^@]+@/gi, "x-access-token:[redacted]@")
RECURSIVE RedactUrl(_)
RedactUrl(value) ==
    IF value = <<>> THEN <<>>
    ELSE LET at == FirstAt(value, 2)
         IN  IF value[1] = "x-access-token:" /\ at > 2
             THEN <<"x-access-token:", "[redacted]", "@">>
                  \o RedactUrl(SubSeq(value, at + 1, Len(value)))
             ELSE <<value[1]>> \o RedactUrl(Tail(value))

\* the last position of the run of words from position i on that are
\* neither "&" nor blank, i - 1 if the run is empty
RECURSIVE RunEnd(_, _)
RunEnd(value, i) ==
    IF i > Len(value) THEN i - 1
    ELSE IF value[i] \in {"&", " "} THEN i - 1
    ELSE RunEnd(value, i + 1)

\* replace(/key=([^&\s]+)/gi, "key=[redacted]") for the words of keys
RECURSIVE RedactParam(_, _)
RedactParam(value, keys) ==
    IF value = <<>> THEN <<>>
    ELSE LET end == RunEnd(value, 2)
         IN  IF value[1] \in keys /\ end >= 2
             THEN <<value[1], "[redacted]">>
                  \o RedactParam(SubSeq(value, end + 1, Len(value)), keys)
             ELSE <<value[1]>> \o RedactParam(Tail(value), keys)

sanitizeText_UrlOnly(value) == RedactUrl(value)

\* the three replacements in turn; "access_token=" ends in "token=", so the
\* third one matches after it too
sanitizeText(value) ==
    RedactParam(RedactParam(RedactUrl(value), {"access_token="}),
                {"token=", "access_token="})

getErrorMessage(error) == sanitizeText(error.message)

\* the 120 characters after which a summary reason is cut, in words
SummaryLimit == 2

truncate(value, maxLength) ==
    IF Len(value) <= maxLength THEN value
    ELSE SubSeq(value, 1, maxLength) \o <<"...<truncated>">>

getFailureSummaryReason_Raw(status, message) == truncate(message, SummaryLimit)

getFailureSummaryReason(status, message) ==
    IF status = 403 THEN <<"missing GitHub App permissions">>
    ELSE IF status = 404 THEN <<"app not installed or wrong repo/ref">>
    ELSE IF status = 422 THEN <<"invalid ref/sha or check run update issues">>
    ELSE truncate(message, SummaryLimit)

getFailureHint(status) ==
    IF status = 403
    THEN "Ensure the GitHub App has the required permissions (Contents, Pull requests, Issues, Checks) and reinstall or refresh the installation."
    ELSE IF status = 404
    THEN "Verify the GitHub App is installed on the repo and the repo name/ref are correct."
    ELSE IF status = 422
    THEN "Confirm the ref/SHA exists and check runs can be updated for this commit."
    ELSE "Check the error details and resolve the underlying issue before rerunning."

buildFailureOutput(error) ==
    LET message == getErrorMessage(error)
    IN  [title |-> Title,
         summary |-> <<"Autofix failed: ">>
                     \o getFailureSummaryReason(error.status, message),
         text |-> <<"How to fix: ", getFailureHint(error.status)>>
                  \o (IF error.status \in {403, 404, 422} THEN <<>>
                      ELSE <<"Error: ">> \o message)
                  \o <<"Docs: docs/TROUBLESHOOTING.md">>]

(* ------------------------------------------------------------------ *)
(* autofix/runner.ts: the result                                       *)
(* ------------------------------------------------------------------ *)
NullResult ==
    [checkConclusion |-> "", autofixConclusion |-> "", summary |-> <<>>,
     details |-> <<>>, appliedFixes |-> FALSE, unsafeFixesUsed |-> FALSE,
     hiddenFixesAvailable |-> FALSE]

\* the suffix of the summary, "" when there is none
SummarySuffix_SkipReasonFirst(unsafeFixesUsed, unsafeFixesSkipReason, hiddenFixesAvailable) ==
    IF unsafeFixesSkipReason # "" THEN unsafeFixesSkipReason
    ELSE IF unsafeFixesUsed THEN "Unsafe fixes enabled (Pro)."
    ELSE IF hiddenFixesAvailable
    THEN "Pro can enable Unsafe Fixes to attempt to auto-fix these."
    ELSE ""

SummarySuffix(unsafeFixesUsed, unsafeFixesSkipReason, hiddenFixesAvailable) ==
    IF unsafeFixesUsed THEN "Unsafe fixes enabled (Pro)."
    ELSE IF unsafeFixesSkipReason # "" THEN unsafeFixesSkipReason
    ELSE IF hiddenFixesAvailable
    THEN "Pro can enable Unsafe Fixes to attempt to auto-fix these."
    ELSE ""

SummaryBase(passed, appliedFixes) ==
    IF passed
    THEN IF appliedFixes THEN "Applied Python formatting fixes."
         ELSE "No formatting changes needed."
    ELSE "Formatting completed, but lint checks still report issues."

BuildResult(passed, appliedFixes, unsafeFixesUsed, skipReason, hidden) ==
    LET suffix == SummarySuffix(unsafeFixesUsed, skipReason, hidden)
    IN  [checkConclusion |-> IF passed THEN "success" ELSE "failure",
         autofixConclusion |-> "success",
         summary |-> IF suffix = "" THEN <<SummaryBase(passed, appliedFixes)>>
                     ELSE <<SummaryBase(passed, appliedFixes), suffix>>,
         details |-> <<"logs">>,
         appliedFixes |-> appliedFixes,
         unsafeFixesUsed |-> unsafeFixesUsed,
         hiddenFixesAvailable |-> hidden]

(* ------------------------------------------------------------------ *)
(* The events                                                          *)
(* ------------------------------------------------------------------ *)
NullPayload ==
    [action |-> "", pull_request |-> FALSE, owner |-> "", repo |-> "",
     number |-> 0, sha |-> 0, ref |-> "", full_name |-> "", html_url |-> "",
     installation |-> 0]

FullPayload(act, sha, inst) ==
    [action |-> act, pull_request |-> TRUE, owner |-> "octo-org", repo |-> "demo",
     number |-> 7, sha |-> sha, ref |-> "feature", full_name |-> "octo-org/demo",
     html_url |-> "https://github.com/octo-org/demo/pull/7", installation |-> inst]

\* actions an inbound event may carry; "" stands for a payload without action
EventActions == {"opened", "synchronize", "reopened", "ready_for_review",
                 "closed", "edited", ""}

\* payloads that lack one part
BrokenPayloads ==
    LET base(act) == FullPayload(act, 1, FreeInstallation)
    IN  UNION { { [base(act) EXCEPT !.owner = ""],
                  [base(act) EXCEPT !.repo = ""],
                  [base(act) EXCEPT !.number = 0],
                  [base(act) EXCEPT !.sha = 0],
                  [base(act) EXCEPT !.ref = ""],
                  [base(act) EXCEPT !.full_name = ""],
                  [base(act) EXCEPT !.html_url = ""],
                  [base(act) EXCEPT !.installation = 0],
                  [NullPayload EXCEPT !.action = act, !.owner = "octo-org",
                                      !.repo = "demo",
                                      !.installation = FreeInstallation] }
              : act \in EventActions }

\* every head commit arrives as synchronize on both installations; the
\* first head commit arrives with every action
Payloads ==
    { FullPayload("synchronize", sha, inst) :
        sha \in Shas, inst \in {FreeInstallation, ProInstallation} }
    \cup { FullPayload(act, 1, FreeInstallation) : act \in EventActions }
    \cup BrokenPayloads

(* ------------------------------------------------------------------ *)
(* The locals of one handlePullRequestEvent task                       *)
(* ------------------------------------------------------------------ *)
\* no call of createCheckRun whose input is followed
NoInput ==
    [owner |-> "", repo |-> "", name |-> "", headSha |-> 0, status |-> "",
     conclusion |-> "", output |-> inProgressOutput]

IdleEv ==
    [pc |-> "idle", ended |-> "", payload |-> NullPayload, action |-> "",
     context |-> NullContext, installationId |-> 0, plan |-> "free",
     octokit |-> FALSE, installationToken |-> FALSE,
     checkRunIds |-> [n \in CheckRunName |-> 0], next |-> 1,
     result |-> "", listed |-> FALSE, files |-> <<>>,
     issue |-> NoIssue, actor |-> "",
     settings |-> defaultSettings, body |-> PlainBody("empty"),
     lookup |-> "none", unsafeFixesSetting |-> NoSetting,
     enableUnsafeFixes |-> FALSE,
     tempDir |-> "none", treeChanged |-> FALSE, lintFixCode |-> 0,
     lintCheck |-> 0, formatCode |-> 0,
     porcelain |-> "none", pushRef |-> "",
     unsafeFixesUsed |-> FALSE, hidden |-> FALSE,
     appliedFixes |-> FALSE, formatCheck |-> 0,
     autofixResult |-> NullResult, error |-> NoError, caught |-> FALSE,
     verifyHidden |-> FALSE, base |-> 0,
     usage |-> <<>>, warned |-> "", commentBody |-> <<>>, input |-> NoInput,
     calls |-> {}]

\* an external call is issued
Call(rec, label) == [rec EXCEPT !.calls = @ \cup {label}]

\* console.warn of the handler before it returns early
Warn(rec, message) == [rec EXCEPT !.warned = message]

\* the finally block: logUsage with the current result, then the task ends
Finally_NoUsage(rec, how) == [rec EXCEPT !.pc = "done", !.ended = how]

Finally(rec, how) ==
    [rec EXCEPT !.usage = Append(@, rec.result), !.pc = "done", !.ended = how]

Return(rec, result) == Finally([rec EXCEPT !.result = result], "returned")

Finalized_All(rec) == IF rec.octokit THEN CheckRunName ELSE {}

\* finalizeCheckRuns: the names whose update is issued
Finalized(rec) ==
    IF rec.octokit THEN {n \in CheckRunName : rec.checkRunIds[n] # 0} ELSE {}

IssueUpdates(rec) ==
    LET r1 == IF "CI/check" \in Finalized(rec)
              THEN Call(rec, "checks.update:CI/check") ELSE rec
    IN  IF "CI/autofix" \in Finalized(rec)
        THEN Call(r1, "checks.update:CI/autofix") ELSE r1

\* the conclusion finalizeCheckRuns gives a name: override?.[name] ?? conclusion
\* (override is a function on the names it overrides)
FinalizeConclusion(name, conclusion, override) ==
    IF name \in DOMAIN override THEN override[name] ELSE conclusion

NoOverride == [n \in {} |-> ""]

\* the catch block's call of finalizeCheckRuns
CatchConclusion ==
    [name \in CheckRunName |-> FinalizeConclusion(name, "failure", NoOverride)]

\* completeCheckRun on the platform
Completed(run, conclusion, output) ==
    [run EXCEPT !.status = "completed", !.conclusion = conclusion,
                !.output = buildCheckOutput(output), !.updates = @ + 1]

EnterCatch_AlwaysFinalize(rec, error) ==
    [IssueUpdates([rec EXCEPT !.error = error, !.caught = TRUE,
                              !.autofixResult = NullResult])
     EXCEPT !.pc = "catchFinalize"]

\* the catch block up to its first await
\* (the constants of the try block are out of scope here)
EnterCatch(rec, error) ==
    LET r1 == [rec EXCEPT !.error = error, !.caught = TRUE,
                          !.settings = defaultSettings,
                          !.body = PlainBody("empty"),
                          !.unsafeFixesSetting = NoSetting,
                          !.enableUnsafeFixes = FALSE,
                          !.autofixResult = NullResult]
    IN  IF ~rec.octokit THEN Return(r1, "error")
        ELSE [IssueUpdates(r1) EXCEPT !.pc = "catchFinalize"]

\* safePostPullRequestComment up to its await: the ledger is read, and the
\* comment request is issued unless the ledger holds this head sha
StartComment(rec, ledger, result, body) ==
    IF ledger[rec.context.pullNumber] = rec.context.headSha
    THEN Return(rec, result)
    ELSE [Call(rec, "issues.createComment") EXCEPT !.pc = "comment",
                                                 !.commentBody = body]

(* ------------------------------------------------------------------ *)
(* Initial state                                                       *)
(* ------------------------------------------------------------------ *)
\* no event was received yet
InitProcess ==
    /\ ev = [t \in Tasks |-> IdleEv]
    /\ checkStore = [i \in CheckIds |-> NoCheckRun]
    /\ lastCommentedShaByPull = [p \in Pulls |-> 0]
    /\ comments = [k \in Pulls \X Shas |-> 0]

\* the settings issue of the README: opened by an admin to turn unsafe
\* fixes on
SeedIssue ==
    [exists |-> TRUE, user |-> "alice", updated_at |-> "2024-01-01T00:00:00Z",
     body |-> ObjectBody("true", "", "")]

Init ==
    /\ InitProcess
    /\ settingsIssue = SeedIssue
    /\ enabledByActor = SeedIssue.user
    /\ edits = 0

\* a repository without settings issue
AuthInit ==
    /\ InitProcess
    /\ settingsIssue = NoIssue
    /\ enabledByActor = ""
    /\ edits = 0

Set(t, rec) == ev' = [ev EXCEPT ![t] = rec]

(* ------------------------------------------------------------------ *)
(* index.ts: handlePullRequestEvent, from the event to the first await *)
(* ------------------------------------------------------------------ *)
\* a pair (pull, head sha) has more than one comment; events are followed
\* until this happens
Duplicate == \E k \in Pulls \X Shas : comments[k] > 1

\* the lowest idle task takes the event (tasks are interchangeable)
CanStart(t) ==
    /\ ev[t].pc = "idle"
    /\ \A u \in Tasks : u < t => ev[u].pc # "idle"
    /\ ~Duplicate

Ignored(rec) == [rec EXCEPT !.pc = "done", !.ended = "returned"]

Receive(payload) ==
    LET r0 == [IdleEv EXCEPT !.payload = payload, !.action = payload.action]
        context == extractPullRequestContext(payload)
        installationId == payload.installation
    IN  IF payload.action = "" \/ payload.action \notin supportedActions
        THEN Ignored(r0)
        ELSE IF ~payload.pull_request
        THEN Ignored(Warn(r0, "pull_request payload missing pull_request field."))
        ELSE IF context = NullContext
        THEN Ignored(Warn(r0, "pull_request payload missing required fields."))
        ELSE IF installationId = 0
        THEN Ignored(Warn([r0 EXCEPT !.context = context],
                          "Missing installation id for pull_request event."))
        ELSE [Call([r0 EXCEPT !.context = context,
                              !.installationId = installationId,
                              !.plan = getPlanForInstallation(installationId),
                              !.result = "started"],
                   "apps.createInstallationAccessToken")
              EXCEPT !.pc = "token"]

HandlePullRequestEvent(t, payload) ==
    /\ CanStart(t)
    /\ \A u \in Tasks \ {t} : ev[u].pc = "idle"
    /\ Set(t, Receive(payload))
    /\ UNCHANGED <<checkStore, lastCommentedShaByPull, comments, settingsIssue,
                   enabledByActor, edits>>

CreateInstallationOctokit(t) ==
    /\ ev[t].pc = "token"
    /\ \/ Set(t, [Call([ev[t] EXCEPT !.octokit = TRUE, !.installationToken = TRUE],
                       "checks.create:CI/check")
                  EXCEPT !.pc = "create", !.next = 1])
       \/ Set(t, EnterCatch(ev[t], [status |-> 0,
                                    message |-> <<"Installation token creation failed: Bad credentials">>]))
    /\ UNCHANGED <<checkStore, lastCommentedShaByPull, comments, settingsIssue,
                   enabledByActor, edits>>

FreeId == CHOOSE i \in CheckIds :
            /\ checkStore[i].status = "none"
            /\ \A j \in CheckIds : checkStore[j].status = "none" => i <= j

CheckCreateFailed_Rethrow(rec) ==
    EnterCatch(rec, [status |-> 500, message |-> <<"checks.create failed">>])

\* the catch block inside the creation loop: the error is logged, the
\* outcome is set and the handler returns
CheckCreateFailed(rec) == Return(rec, "check_create_failed")

CreateCheckRun(t) ==
    /\ ev[t].pc = "create"
    /\ LET rec == ev[t]
           name == checkRuns[rec.next]
           r1 == [rec EXCEPT !.checkRunIds[name] = FreeId]
           input == [owner |-> rec.context.owner, repo |-> rec.context.repo,
                     name |-> name, headSha |-> rec.context.headSha,
                     status |-> "in_progress", conclusion |-> "",
                     output |-> inProgressOutput]
       IN  \/ /\ checkStore' = [checkStore EXCEPT ![FreeId] =
                    PlatformRun(CreateParams(input), t)]
              /\ Set(t, IF rec.next < Len(checkRuns)
                        THEN [Call(r1, "checks.create:CI/autofix") EXCEPT !.next = @ + 1]
                        ELSE [Call(r1, "pulls.listFiles") EXCEPT !.pc = "listFiles"])
           \/ /\ Set(t, CheckCreateFailed(rec))
              /\ UNCHANGED checkStore
    /\ UNCHANGED <<lastCommentedShaByPull, comments, settingsIssue,
                   enabledByActor, edits>>

ListPullRequestFiles(t) ==
    /\ ev[t].pc = "listFiles"
    /\ \/ \E files \in FileLists :
            LET r1 == [ev[t] EXCEPT !.listed = TRUE, !.files = files]
            IN  Set(t, IF ~containsPythonChanges(files)
                       THEN [IssueUpdates(r1) EXCEPT !.pc = "skipFinalize"]
                       ELSE IF ~r1.installationToken
                       THEN EnterCatch(r1, [status |-> 0,
                                            message |-> <<"Missing installation access token.">>])
                       ELSE [Call(r1, "issues.listForRepo") EXCEPT !.pc = "settings"])
       \/ \E s \in HttpErrors :
            Set(t, EnterCatch(ev[t], [status |-> s, message |-> <<"pulls.listFiles failed">>]))
    /\ UNCHANGED <<checkStore, lastCommentedShaByPull, comments, settingsIssue,
                   enabledByActor, edits>>

\* the platform applies the updates of the names in done
ApplyUpdates(rec, done, conclusionOf, output) ==
    checkStore' = [i \in CheckIds |->
        IF \E n \in done : rec.checkRunIds[n] = i
        THEN Completed(checkStore[i], conclusionOf[checkStore[i].name], output)
        ELSE checkStore[i]]

SkipConclusion ==
    [name \in CheckRunName |-> FinalizeConclusion(name, "success", NoOverride)]

SkipOutput == [title |-> Title, summary |-> SkippedSummary, text |-> SkippedSummary]

\* the skip path: both updates of finalizeCheckRuns settle
FinalizeSkipped(t) ==
    /\ ev[t].pc = "skipFinalize"
    /\ LET rec == ev[t]
       IN  \/ /\ ApplyUpdates(rec, Finalized(rec), SkipConclusion, SkipOutput)
              /\ Set(t, Return(rec, "skipped_no_python"))
           \/ \E n \in Finalized(rec) :
              \E done \in SUBSET (Finalized(rec) \ {n}) :
                /\ ApplyUpdates(rec, done, SkipConclusion, SkipOutput)
                /\ Set(t, EnterCatch(rec, UpdateError))
    /\ UNCHANGED <<lastCommentedShaByPull, comments, settingsIssue,
                   enabledByActor, edits>>

(* ------------------------------------------------------------------ *)
(* index.ts: resolveUnsafeFixesSetting                                 *)
(* ------------------------------------------------------------------ *)
\* runAutofix is entered: the gate is computed and mkdtemp is awaited
StartAutofix(rec) ==
    [Call([rec EXCEPT !.enableUnsafeFixes = UnsafeGate(rec.plan, rec.unsafeFixesSetting)],
          "mkdtemp")
     EXCEPT !.pc = "mkdtemp"]

\* resolveUnsafeFixesSetting once getRepoSettingsFromIssue has returned
AfterSettings_AlwaysLookup(rec) ==
    IF rec.settings.unsafeFixesEnabledBy = ""
    THEN StartAutofix([rec EXCEPT !.unsafeFixesSetting = ResolveVerified(FALSE)])
    ELSE [Call(rec, "repos.getCollaboratorPermissionLevel") EXCEPT !.pc = "verifyAdmin"]

AfterSettings(rec) ==
    IF ~rec.settings.enableUnsafeFixes
    THEN StartAutofix([rec EXCEPT !.unsafeFixesSetting = NoSetting])
    ELSE IF rec.settings.unsafeFixesEnabledBy = ""
    THEN StartAutofix([rec EXCEPT !.unsafeFixesSetting = ResolveVerified(FALSE)])
    ELSE [Call(rec, "repos.getCollaboratorPermissionLevel") EXCEPT !.pc = "verifyAdmin"]

\* issues.listForRepo returns or throws
GetRepoSettingsFromIssue(t) ==
    /\ ev[t].pc = "settings"
    /\ \/ LET rd == ReadSettings(settingsIssue)
              r1 == [ev[t] EXCEPT !.issue = settingsIssue,
                                  !.actor = enabledByActor,
                                  !.settings = rd.settings, !.body = rd.body]
          IN  Set(t, IF rd.write
                     THEN [Call(r1, "issues.update") EXCEPT !.pc = "settingsUpdate"]
                     ELSE AfterSettings(r1))
       \/ Set(t, AfterSettings([ev[t] EXCEPT !.settings = defaultSettings]))
    /\ UNCHANGED <<checkStore, lastCommentedShaByPull, comments, settingsIssue,
                   enabledByActor, edits>>

\* issues.update (the attribution backfill) returns or throws
UpdateSettingsIssue(t) ==
    /\ ev[t].pc = "settingsUpdate"
    /\ \/ /\ settingsIssue' = [settingsIssue EXCEPT !.body = ev[t].body]
          /\ Set(t, AfterSettings(ev[t]))
       \/ /\ UNCHANGED settingsIssue
          /\ Set(t, AfterSettings(ev[t]))
    /\ UNCHANGED <<checkStore, lastCommentedShaByPull, comments,
                   enabledByActor, edits>>

\* repos.getCollaboratorPermissionLevel returns or throws
VerifyRepoAdmin(t) ==
    /\ ev[t].pc = "verifyAdmin"
    /\ \E lookup \in {PermissionOf(ev[t].settings.unsafeFixesEnabledBy), "throw"} :
          Set(t, StartAutofix([ev[t] EXCEPT
                    !.lookup = lookup,
                    !.unsafeFixesSetting = ResolveVerified(verifyRepoAdmin(lookup))]))
    /\ UNCHANGED <<checkStore, lastCommentedShaByPull, comments, settingsIssue,
                   enabledByActor, edits>>

(* ------------------------------------------------------------------ *)
(* autofix/runner.ts: runAutofix                                       *)
(* ------------------------------------------------------------------ *)
\* a stage throws inside the try block: the error is wrapped in an
\* AutofixError and the finally block removes the workspace
Throw_NoCleanup(rec, message) ==
    EnterCatch(rec, [status |-> 0, message |-> <<message>>])

Throw(rec, message) ==
    [Call([rec EXCEPT !.error = [status |-> 0, message |-> <<message>>],
                      !.hidden = FALSE, !.formatCheck = 0,
                      !.treeChanged = FALSE,
                      !.appliedFixes = FALSE, !.unsafeFixesUsed = FALSE], "rm")
     EXCEPT !.pc = "cleanupThrow"]

Mkdtemp(t) ==
    /\ ev[t].pc = "mkdtemp"
    /\ \/ Set(t, [Call([ev[t] EXCEPT !.tempDir = "exists"], "git clone")
                  EXCEPT !.pc = "clone"])
       \/ Set(t, EnterCatch(ev[t], [status |-> 0, message |-> <<"mkdtemp failed">>]))
    /\ UNCHANGED <<checkStore, lastCommentedShaByPull, comments, settingsIssue,
                   enabledByActor, edits>>

\* the push of the handler's record rec was accepted: after a push the
\* verification is issued only when the push returned
Landed(rec) ==
    {"git push origin HEAD:feature", "ruff format --check ."} \subseteq rec.calls

\* the head of the pull request's ref on the remote: the number of commits
\* the live handlers have landed on it
RemoteHead == Cardinality({u \in Tasks : Landed(ev[u])})

PushAccepted_Forced(base, head) == TRUE

\* git push origin HEAD:<headRef> carries no --force: the remote accepts
\* it only as a fast-forward of its head
PushAccepted(base, head) == base = head

\* git clone, fetch, checkout -B and the two git config calls; the clone
\* starts from the remote head
GitCheckout(t) ==
    /\ ev[t].pc = "clone"
    /\ \/ Set(t, [Call([ev[t] EXCEPT !.base = RemoteHead], "ruff --version")
                  EXCEPT !.pc = "ensureRuff"])
       \/ Set(t, Throw(ev[t], "Command failed: git clone."))
    /\ UNCHANGED <<checkStore, lastCommentedShaByPull, comments, settingsIssue,
                   enabledByActor, edits>>

EnsureRuff(t) ==
    /\ ev[t].pc = "ensureRuff"
    /\ \/ Set(t, [Call(ev[t], "ruff format .") EXCEPT !.pc = "format"])
       \/ Set(t, Throw(ev[t], "ruff is required but missing."))
       \/ Set(t, Throw(ev[t], "spawn ruff ENOENT"))
    /\ UNCHANGED <<checkStore, lastCommentedShaByPull, comments, settingsIssue,
                   enabledByActor, edits>>

\* the arguments of the lint-fix call
checkFixArgs(enableUnsafeFixes) ==
    IF enableUnsafeFixes THEN "ruff check . --fix --unsafe-fixes"
    ELSE "ruff check . --fix"

\* exit codes of a tool
ExitCodes == {0, 1}

AfterFormat_Continue(rec, code) ==
    [Call([rec EXCEPT !.unsafeFixesUsed = rec.enableUnsafeFixes],
          checkFixArgs(rec.enableUnsafeFixes))
     EXCEPT !.pc = "lintfix"]

\* a non-zero code of the formatter is fatal; otherwise the lint-fix is run
AfterFormat(rec, code) ==
    IF code # 0
    THEN Throw(rec, "ruff format failed.")
    ELSE [Call([rec EXCEPT !.unsafeFixesUsed = rec.enableUnsafeFixes],
               checkFixArgs(rec.enableUnsafeFixes))
          EXCEPT !.pc = "lintfix"]

\* runRuffFormatting: ruff format . exits with a code, having rewritten
\* files or not
RuffFormat(t) ==
    /\ ev[t].pc = "format"
    /\ \E code \in ExitCodes, changed \in BOOLEAN :
          Set(t, AfterFormat([ev[t] EXCEPT !.formatCode = code,
                                           !.treeChanged = changed],
                             code))
    /\ UNCHANGED <<checkStore, lastCommentedShaByPull, comments, settingsIssue,
                   enabledByActor, edits>>

AfterLintFix_Fatal(rec, code, black) ==
    IF code # 0
    THEN Throw(rec, "ruff check failed.")
    ELSE IF black
         THEN [rec EXCEPT !.pc = "ensureBlack"]
         ELSE [rec EXCEPT !.pc = "status"]

\* a non-zero code of the lint-fix is only logged; isBlackConfigured decides
\* whether the secondary formatter runs
AfterLintFix(rec, code, black) ==
    IF black
    THEN [rec EXCEPT !.pc = "ensureBlack"]
    ELSE [rec EXCEPT !.pc = "status"]

\* runRuffFormatting: ruff check . --fix exits with any code, having rewritten
\* files or not; its output holds the hidden-fixes marker or not; then
\* isBlackConfigured reads the tree
RuffCheckFix(t) ==
    /\ ev[t].pc = "lintfix"
    /\ \E hidden \in BOOLEAN, black \in BOOLEAN, changed \in BOOLEAN,
          code \in ExitCodes :
          Set(t, AfterLintFix([ev[t] EXCEPT !.hidden = hidden,
                                            !.lintFixCode = code,
                                            !.treeChanged = @ \/ changed],
                              code, black))
    /\ UNCHANGED <<checkStore, lastCommentedShaByPull, comments, settingsIssue,
                   enabledByActor, edits>>

EnsureBlack(t) ==
    /\ ev[t].pc = "ensureBlack"
    /\ \/ Set(t, [ev[t] EXCEPT !.pc = "black"])
       \/ Set(t, [ev[t] EXCEPT !.pc = "pipInstall"])
    /\ UNCHANGED <<checkStore, lastCommentedShaByPull, comments, settingsIssue,
                   enabledByActor, edits>>

PipInstallBlack(t) ==
    /\ ev[t].pc = "pipInstall"
    /\ \/ Set(t, [ev[t] EXCEPT !.pc = "black"])
       \/ Set(t, Throw(ev[t], "Command failed: python -m pip install black."))
    /\ UNCHANGED <<checkStore, lastCommentedShaByPull, comments, settingsIssue,
                   enabledByActor, edits>>

\* python -m black . exits with any code, having rewritten files or not
RunBlack(t) ==
    /\ ev[t].pc = "black"
    /\ \E changed \in BOOLEAN :
          Set(t, [ev[t] EXCEPT !.treeChanged = @ \/ changed, !.pc = "status"])
    /\ UNCHANGED <<checkStore, lastCommentedShaByPull, comments, settingsIssue,
                   enabledByActor, edits>>

AfterStatus_AlwaysCommit(rec, hasChanges) ==
    [Call(rec, "git add -A") EXCEPT !.pc = "add"]

\* the branch on hasChanges
AfterStatus(rec, hasChanges) ==
    IF hasChanges
    THEN [Call(rec, "git add -A") EXCEPT !.pc = "add"]
    ELSE [Call(rec, "ruff format --check .") EXCEPT !.pc = "verifyFormat"]

\* git status --porcelain exits; its output lists the files the tools
\* rewrote in the fresh clone
GitStatus(t) ==
    /\ ev[t].pc = "status"
    /\ LET hasChanges == ev[t].treeChanged
       IN  Set(t, AfterStatus([ev[t] EXCEPT !.porcelain =
                                  IF hasChanges THEN "changes" ELSE "empty"],
                              hasChanges))
    /\ UNCHANGED <<checkStore, lastCommentedShaByPull, comments, settingsIssue,
                   enabledByActor, edits>>

GitAdd(t) ==
    /\ ev[t].pc = "add"
    /\ \/ Set(t, [Call(ev[t], "git commit") EXCEPT !.pc = "commit"])
       \/ Set(t, Throw(ev[t], "Command failed: git add -A."))
    /\ UNCHANGED <<checkStore, lastCommentedShaByPull, comments, settingsIssue,
                   enabledByActor, edits>>

GitCommit(t) ==
    /\ ev[t].pc = "commit"
    /\ \/ Set(t, [Call([ev[t] EXCEPT !.pushRef = ev[t].context.headRef],
                       "git push origin HEAD:feature")
                  EXCEPT !.pc = "push"])
       \/ Set(t, Throw(ev[t], "Command failed: git commit."))
    /\ UNCHANGED <<checkStore, lastCommentedShaByPull, comments, settingsIssue,
                   enabledByActor, edits>>

GitPush(t) ==
    /\ ev[t].pc = "push"
    /\ \/ /\ PushAccepted(ev[t].base, RemoteHead)
          /\ Set(t, [Call([ev[t] EXCEPT !.appliedFixes = TRUE], "ruff format --check .")
                     EXCEPT !.pc = "verifyFormat"])
       \/ Set(t, Throw(ev[t], "Command failed: git push."))
    /\ UNCHANGED <<checkStore, lastCommentedShaByPull, comments, settingsIssue,
                   enabledByActor, edits>>

HiddenFixesAvailable_LintFixOnly(formatting, verification) == formatting

\* runAutofix: the marker was seen by runRuffFormatting or by
\* runRuffVerification
HiddenFixesAvailable(formatting, verification) == formatting \/ verification

Passed_FormatOnly(formatCheck, lintCheck) == formatCheck = 0

\* runRuffVerification: passed
Passed(formatCheck, lintCheck) == ~(formatCheck # 0 \/ lintCheck # 0)

\* runRuffVerification: ruff format --check . exits with a code
VerifyFormat(t) ==
    /\ ev[t].pc = "verifyFormat"
    /\ \E code \in ExitCodes :
          Set(t, [Call([ev[t] EXCEPT !.formatCheck = code], "ruff check .")
                  EXCEPT !.pc = "verifyLint"])
    /\ UNCHANGED <<checkStore, lastCommentedShaByPull, comments, settingsIssue,
                   enabledByActor, edits>>

\* runRuffVerification: ruff check . exits; the result is built and the
\* finally block removes the workspace
VerifyLint(t) ==
    /\ ev[t].pc = "verifyLint"
    /\ \E code \in ExitCodes, hidden \in BOOLEAN :
          LET rec == ev[t]
              passed == Passed(rec.formatCheck, code)
              result == BuildResult(passed, rec.appliedFixes, rec.unsafeFixesUsed,
                                    rec.unsafeFixesSetting.skipReason,
                                    HiddenFixesAvailable(rec.hidden, hidden))
          IN  Set(t, [Call([rec EXCEPT !.autofixResult = result,
                                           !.hidden = FALSE,
                                           !.verifyHidden = hidden,
                                           !.lintCheck = code,
                                           !.appliedFixes = FALSE,
                                           !.unsafeFixesUsed = FALSE], "rm")
                      EXCEPT !.pc = "cleanupReturn"])
    /\ UNCHANGED <<checkStore, lastCommentedShaByPull, comments, settingsIssue,
                   enabledByActor, edits>>

(* ------------------------------------------------------------------ *)
(* index.ts: handlePullRequestEvent after runAutofix                   *)
(* ------------------------------------------------------------------ *)
CompletedResult(autofixResult) ==
    IF autofixResult.checkConclusion = "failure" THEN "completed_failure"
    ELSE "completed_success"

ShouldComment_Always(autofixResult) == TRUE

ShouldComment(autofixResult) ==
    autofixResult.appliedFixes \/ autofixResult.checkConclusion = "failure"

AfterCompleteAutofix(rec, ledger) ==
    IF ShouldComment(rec.autofixResult)
    THEN StartComment(rec, ledger, CompletedResult(rec.autofixResult),
                      <<"### Python Autofix Pro">> \o rec.autofixResult.summary
                          \o <<"PR: ", rec.context.htmlUrl>>)
    ELSE Return(rec, CompletedResult(rec.autofixResult))

AfterCompleteCheck(rec, ledger) ==
    IF rec.checkRunIds["CI/autofix"] # 0
    THEN [Call(rec, "checks.update:CI/autofix") EXCEPT !.pc = "completeAutofix"]
    ELSE AfterCompleteAutofix(
            rec,
            ledger)

AfterAutofix_CommentFirst(rec, ledger) == AfterCompleteAutofix(rec, ledger)

AfterAutofix(rec, ledger) ==
    IF rec.checkRunIds["CI/check"] # 0
    THEN [Call(rec, "checks.update:CI/check") EXCEPT !.pc = "completeCheck"]
    ELSE AfterCompleteCheck(
            rec,
            ledger)

\* the exit codes and outputs runAutofix held are gone when it is left
Leave(rec) ==
    [rec EXCEPT !.lintFixCode = 0, !.formatCheck = 0, !.lintCheck = 0,
                !.hidden = FALSE, !.verifyHidden = FALSE]

\* runAutofix's finally block: fs.promises.rm returns or throws
RemoveTempDir(t) ==
    /\ ev[t].pc \in {"cleanupReturn", "cleanupThrow"}
    /\ \/ LET r1 == [Leave(ev[t]) EXCEPT !.tempDir = "removed"]
          IN  Set(t, IF ev[t].pc = "cleanupThrow"
                     THEN EnterCatch(r1, r1.error)
                     ELSE AfterAutofix(r1, lastCommentedShaByPull))
       \/ Set(t, EnterCatch(Leave(ev[t]), [status |-> 0, message |-> <<"rm failed">>]))
    /\ UNCHANGED <<checkStore, lastCommentedShaByPull, comments, settingsIssue,
                   enabledByActor, edits>>

ResultOutput(autofixResult) ==
    [title |-> Title, summary |-> autofixResult.summary, text |-> autofixResult.details]

PrimaryConclusion(rec) == rec.autofixResult.checkConclusion

SecondaryConclusion_Primary(rec) == rec.autofixResult.checkConclusion

SecondaryConclusion(rec) == rec.autofixResult.autofixConclusion

\* completeCheckRun for CI/check returns or throws
CompleteCheck(t) ==
    /\ ev[t].pc = "completeCheck"
    /\ LET rec == ev[t]
           id == rec.checkRunIds["CI/check"]
       IN  \/ /\ checkStore' = [checkStore EXCEPT ![id] =
                    Completed(@, PrimaryConclusion(rec), ResultOutput(rec.autofixResult))]
              /\ Set(t, AfterCompleteCheck(rec, lastCommentedShaByPull))
           \/ /\ UNCHANGED checkStore
              /\ Set(t, EnterCatch(rec, UpdateError))
    /\ UNCHANGED <<lastCommentedShaByPull, comments, settingsIssue,
                   enabledByActor, edits>>

\* completeCheckRun for CI/autofix returns or throws
CompleteAutofix(t) ==
    /\ ev[t].pc = "completeAutofix"
    /\ LET rec == ev[t]
           id == rec.checkRunIds["CI/autofix"]
       IN  \/ /\ checkStore' = [checkStore EXCEPT ![id] =
                    Completed(@, SecondaryConclusion(rec), ResultOutput(rec.autofixResult))]
              /\ Set(t, AfterCompleteAutofix(rec, lastCommentedShaByPull))
           \/ /\ UNCHANGED checkStore
              /\ Set(t, EnterCatch(rec, UpdateError))
    /\ UNCHANGED <<lastCommentedShaByPull, comments, settingsIssue,
                   enabledByActor, edits>>

CommentFailed_SetsLedger(ledger, rec) ==
    [ledger EXCEPT ![rec.context.pullNumber] = rec.context.headSha]

\* the catch block of safePostPullRequestComment: the error is logged
CommentFailed(ledger, rec) == ledger

\* safePostPullRequestComment: issues.createComment returns (the ledger is
\* set) or throws (logged and swallowed); then the handler records its result
PostComment(t) ==
    /\ ev[t].pc = "comment"
    /\ LET rec == ev[t]
           key == <<rec.context.pullNumber, rec.context.headSha>>
           result == IF rec.caught THEN "error" ELSE CompletedResult(rec.autofixResult)
       IN  \/ /\ comments' = [comments EXCEPT ![key] = @ + 1]
              /\ lastCommentedShaByPull' =
                    [lastCommentedShaByPull EXCEPT ![rec.context.pullNumber] =
                        rec.context.headSha]
              /\ Set(t, Return(rec, result))
           \/ /\ UNCHANGED comments
              /\ lastCommentedShaByPull' = CommentFailed(lastCommentedShaByPull, rec)
              /\ Set(t, Return(rec, result))
    /\ UNCHANGED <<checkStore, settingsIssue, enabledByActor, edits>>

(* ------------------------------------------------------------------ *)
(* index.ts: the catch block                                           *)
(* ------------------------------------------------------------------ *)
\* the updates of finalizeCheckRuns settle; a rejected update leaves the
\* catch block through the finally block
CatchFinalize(t) ==
    /\ ev[t].pc = "catchFinalize"
    /\ LET rec == ev[t]
           output == buildFailureOutput(rec.error)
       IN  \/ /\ ApplyUpdates(rec, Finalized(rec), CatchConclusion, output)
              /\ Set(t, StartComment(rec, lastCommentedShaByPull, "error",
                                     <<"### Python Autofix Pro">> \o output.summary))
           \/ \E n \in Finalized(rec) :
              \E done \in SUBSET (Finalized(rec) \ {n}) :
                /\ ApplyUpdates(rec, done, CatchConclusion, output)
                /\ Set(t, Finally(rec, "crashed"))
    /\ UNCHANGED <<lastCommentedShaByPull, comments, settingsIssue,
                   enabledByActor, edits>>

(* ------------------------------------------------------------------ *)
(* The environment                                                     *)
(* ------------------------------------------------------------------ *)
\* a finished task is forgotten, and the platform's records of its check
\* runs with it
Retire(t) ==
    /\ ev[t].pc = "done"
    /\ Set(t, IdleEv)
    /\ checkStore' = [i \in CheckIds |->
            IF checkStore[i].task = t THEN NoCheckRun ELSE checkStore[i]]
    /\ UNCHANGED <<lastCommentedShaByPull, comments, settingsIssue,
                   enabledByActor, edits>>

\* bodies people write into the settings issue
HumanBodies ==
    { PlainBody("garbage"),
      ObjectBody("other", "", ""),
      ObjectBody("false", "", ""),
      ObjectBody("true", "", ""),
      ObjectBody("true", "alice", ""),
      ObjectBody("true", "bob", "2024-01-01T00:00:00Z") }

Enabled(issue) == issue.exists /\ parseSettingsIssueBody(issue.body).settings.enableUnsafeFixes

\* a user opens the settings issue, or (with write access) edits its body,
\* while no event is being handled; "" is an author whose account the
\* platform no longer reports
EditSettingsIssue(user, body) ==
    /\ edits < MaxEdits
    /\ \A t \in Tasks : ev[t].pc = "idle"
    /\ \/ ~settingsIssue.exists
       \/ user # ""
    /\ edits' = edits + 1
    /\ settingsIssue' =
          [exists |-> TRUE,
           user |-> IF settingsIssue.exists THEN settingsIssue.user ELSE user,
           updated_at |-> "2024-02-02T00:00:00Z",
           body |-> body]
    /\ enabledByActor' =
          IF ~Enabled(settingsIssue') THEN ""
          ELSE IF Enabled(settingsIssue) THEN enabledByActor
          ELSE user
    /\ UNCHANGED <<ev, checkStore, lastCommentedShaByPull, comments>>

(* ------------------------------------------------------------------ *)
(* Specification: events are handled one after another                 *)
(* ------------------------------------------------------------------ *)
\* a task takes its next step
Step(t) ==
    \/ CreateInstallationOctokit(t)
    \/ CreateCheckRun(t)
    \/ ListPullRequestFiles(t)
    \/ FinalizeSkipped(t)
    \/ GetRepoSettingsFromIssue(t)
    \/ UpdateSettingsIssue(t)
    \/ VerifyRepoAdmin(t)
    \/ Mkdtemp(t)
    \/ GitCheckout(t)
    \/ EnsureRuff(t)
    \/ RuffFormat(t)
    \/ RuffCheckFix(t)
    \/ EnsureBlack(t)
    \/ PipInstallBlack(t)
    \/ RunBlack(t)
    \/ GitStatus(t)
    \/ GitAdd(t)
    \/ GitCommit(t)
    \/ GitPush(t)
    \/ VerifyFormat(t)
    \/ VerifyLint(t)
    \/ RemoveTempDir(t)
    \/ CompleteCheck(t)
    \/ CompleteAutofix(t)
    \/ PostComment(t)
    \/ CatchFinalize(t)
    \/ Retire(t)

Next ==
    \/ \E t \in Tasks, payload \in Payloads : HandlePullRequestEvent(t, payload)
    \/ \E t \in Tasks : Step(t)

Spec == Init /\ [][Next]_vars

(* ------------------------------------------------------------------ *)
(* Specification: people edit the settings issue between the events of *)
(* one head commit                                                     *)
(* ------------------------------------------------------------------ *)
AuthPayloads ==
    { FullPayload("opened", 1, inst) : inst \in {FreeInstallation, ProInstallation} }

AuthNext ==
    \/ \E t \in Tasks, payload \in AuthPayloads : HandlePullRequestEvent(t, payload)
    \/ \E t \in Tasks : Step(t)
    \/ \E user \in Logins \cup {""}, body \in HumanBodies : EditSettingsIssue(user, body)

AuthSpec == AuthInit /\ [][AuthNext]_vars

(* ------------------------------------------------------------------ *)
(* Observations the properties are stated with                         *)
(* ------------------------------------------------------------------ *)
(* ------------------------------------------------------------------ *)
(* Specification: events for one head commit are delivered again, each *)
(* after the handler of the one before has returned                    *)
(* ------------------------------------------------------------------ *)
RerunPayloads ==
    { FullPayload("synchronize", 1, inst) : inst \in {FreeInstallation, ProInstallation} }

\* what a finished run did to the branch
BranchRecord(rec) ==
    [IdleEv EXCEPT !.pc = "archived", !.context = rec.context,
                   !.treeChanged = rec.treeChanged, !.porcelain = rec.porcelain,
                   !.pushRef = rec.pushRef,
                   !.calls = rec.calls \cap {"git add -A", "git commit",
                                             "git push origin HEAD:feature"},
                   !.appliedFixes = rec.autofixResult.appliedFixes]

\* the handler of a delivery has returned with a result of the pipeline;
\* what the run did to the branch is kept
Archive(t) ==
    /\ ev[t].pc = "done"
    /\ ev[t].autofixResult # NullResult
    /\ Set(t, BranchRecord(ev[t]))
    /\ checkStore' = [i \in CheckIds |->
            IF checkStore[i].task = t THEN NoCheckRun ELSE checkStore[i]]
    /\ UNCHANGED <<lastCommentedShaByPull, comments, settingsIssue,
                   enabledByActor, edits>>

\* the record of a run is dropped
Forget(t) ==
    /\ ev[t].pc = "archived"
    /\ Set(t, IdleEv)
    /\ UNCHANGED <<checkStore, lastCommentedShaByPull, comments, settingsIssue,
                   enabledByActor, edits>>

\* the next delivery is handled after the handler of the one before returned
HandleRedelivery(t, payload) ==
    /\ CanStart(t)
    /\ \A u \in Tasks \ {t} : ev[u].pc \in {"idle", "archived"}
    /\ Set(t, Receive(payload))
    /\ UNCHANGED <<checkStore, lastCommentedShaByPull, comments, settingsIssue,
                   enabledByActor, edits>>

RerunNext ==
    \/ \E t \in Tasks, payload \in RerunPayloads : HandleRedelivery(t, payload)
    \/ \E t \in Tasks : Step(t)
    \/ \E t \in Tasks : Archive(t)
    \/ \E t \in Tasks : Forget(t)

RerunSpec == Init /\ [][RerunNext]_vars

(* ------------------------------------------------------------------ *)
(* Specification: runAutofix is called with every AutofixInput         *)
(* ------------------------------------------------------------------ *)
AutofixInputs ==
    [enableUnsafeFixes : BOOLEAN,
     unsafeFixesSkipReason : {"", unsafeFixesAdminSkipMessage}]

\* the caller's record when runAutofix(input) awaits mkdtemp
RunAutofixCall(input) ==
    LET payload == FullPayload("opened", 1, ProInstallation)
    IN  [Call([IdleEv EXCEPT
                 !.payload = payload, !.action = payload.action,
                 !.context = extractPullRequestContext(payload),
                 !.installationId = ProInstallation,
                 !.enableUnsafeFixes = input.enableUnsafeFixes,
                 !.unsafeFixesSetting =
                     [NoSetting EXCEPT !.skipReason = input.unsafeFixesSkipReason]],
              "mkdtemp")
         EXCEPT !.pc = "mkdtemp"]

RunnerInit ==
    /\ \E input \in AutofixInputs :
          ev = [t \in Tasks |-> IF t = 1 THEN RunAutofixCall(input) ELSE IdleEv]
    /\ checkStore = [i \in CheckIds |-> NoCheckRun]
    /\ lastCommentedShaByPull = [p \in Pulls |-> 0]
    /\ comments = [k \in Pulls \X Shas |-> 0]
    /\ settingsIssue = NoIssue
    /\ enabledByActor = ""
    /\ edits = 0

\* the steps of runAutofix up to its finally block
RunnerNext ==
    \E t \in Tasks :
        \/ Mkdtemp(t)
        \/ GitCheckout(t)
        \/ EnsureRuff(t)
        \/ RuffFormat(t)
        \/ RuffCheckFix(t)
        \/ EnsureBlack(t)
        \/ PipInstallBlack(t)
        \/ RunBlack(t)
        \/ GitStatus(t)
        \/ GitAdd(t)
        \/ GitCommit(t)
        \/ GitPush(t)
        \/ VerifyFormat(t)
        \/ VerifyLint(t)

RunnerSpec == RunnerInit /\ [][RunnerNext]_vars

(* ------------------------------------------------------------------ *)
(* Specification: the settings are read from every settings issue      *)
(* ------------------------------------------------------------------ *)
\* the bodies a settings issue can have
IssueBodies ==
    {PlainBody("empty"), PlainBody("garbage")}
    \cup { [ObjectBody(enable, by, at) EXCEPT !.unknown = keys] :
             enable \in {"true", "false", "other"}, by \in Logins \cup {""},
             at \in {"", "2023-12-31T00:00:00Z"}, keys \in {{}, {"notes"}} }

\* no settings issue, or one with any author, date and body
SettingsIssues ==
    {NoIssue}
    \cup [exists : {TRUE}, user : Logins \cup {""},
          updated_at : {"", "2024-01-01T00:00:00Z"}, body : IssueBodies]

\* the handler's record when resolveUnsafeFixesSetting awaits the issue list
SettingsCall(installationId) ==
    LET payload == FullPayload("opened", 1, installationId)
    IN  [Call([IdleEv EXCEPT
                 !.payload = payload, !.action = payload.action,
                 !.context = extractPullRequestContext(payload),
                 !.installationId = installationId,
                 !.plan = getPlanForInstallation(installationId),
                 !.octokit = TRUE, !.installationToken = TRUE,
                 !.listed = TRUE, !.files = <<APy>>],
              "issues.listForRepo")
         EXCEPT !.pc = "settings"]

SettingsInit ==
    /\ \E installationId \in {FreeInstallation, ProInstallation} :
          ev = [t \in Tasks |-> IF t = 1 THEN SettingsCall(installationId) ELSE IdleEv]
    /\ checkStore = [i \in CheckIds |-> NoCheckRun]
    /\ lastCommentedShaByPull = [p \in Pulls |-> 0]
    /\ comments = [k \in Pulls \X Shas |-> 0]
    /\ settingsIssue \in SettingsIssues
    /\ enabledByActor = ""
    /\ edits = 0

\* the steps of resolveUnsafeFixesSetting
SettingsNext ==
    \E t \in Tasks :
        \/ GetRepoSettingsFromIssue(t)
        \/ UpdateSettingsIssue(t)
        \/ VerifyRepoAdmin(t)

SettingsSpec == SettingsInit /\ [][SettingsNext]_vars

(* ------------------------------------------------------------------ *)
(* Specification: the catch block is entered with every error          *)
(* ------------------------------------------------------------------ *)
\* the longest error message, in words
MaxMessageLen == 3

\* the words of an error message
Words ==
    {"x-access-token:", "access_token=", "token=", "@", "&", " ",
     "ghs_secret", "fatal"}

Messages == UNION { [1..n -> Words] : n \in 1..MaxMessageLen }

\* a caught error carries one of the statuses, or none (0), and any message
Errors == [status : HttpErrors \cup {0}, message : Messages]

\* the handler's record when both check runs were created and a step of
\* the try block throws error
CaughtCall(error) ==
    LET payload == FullPayload("opened", 1, FreeInstallation)
    IN  EnterCatch([IdleEv EXCEPT
                      !.payload = payload, !.action = payload.action,
                      !.context = extractPullRequestContext(payload),
                      !.installationId = FreeInstallation,
                      !.octokit = TRUE, !.installationToken = TRUE,
                      !.checkRunIds = [n \in CheckRunName |->
                                          IF n = "CI/check" THEN 1 ELSE 2],
                      !.calls = {"apps.createInstallationAccessToken",
                                 "checks.create:CI/check",
                                 "checks.create:CI/autofix", "pulls.listFiles"},
                      !.result = "started"],
                   error)

FailureInit ==
    /\ \E error \in Errors :
          ev = [t \in Tasks |-> IF t = 1 THEN CaughtCall(error) ELSE IdleEv]
    /\ checkStore = [i \in CheckIds |->
          IF i \in {1, 2}
          THEN PlatformRun(
                   CreateParams([owner |-> "octo-org", repo |-> "demo",
                                 name |-> IF i = 1 THEN "CI/check" ELSE "CI/autofix",
                                 headSha |-> 1, status |-> "in_progress",
                                 conclusion |-> "", output |-> inProgressOutput]),
                   1)
          ELSE NoCheckRun]
    /\ lastCommentedShaByPull = [p \in Pulls |-> 0]
    /\ comments = [k \in Pulls \X Shas |-> 0]
    /\ settingsIssue = NoIssue
    /\ enabledByActor = ""
    /\ edits = 0

\* the steps of the catch block
FailureNext ==
    \E t \in Tasks :
        \/ CatchFinalize(t)
        \/ PostComment(t)

FailureSpec == FailureInit /\ [][FailureNext]_vars

(* ------------------------------------------------------------------ *)
(* Specification: the handler after its creation loop, where the id of  *)
(* a created check run may be falsy (finalizeCheckRuns and the          *)
(* completion updates test !checkRunId)                                 *)
(* ------------------------------------------------------------------ *)
\* the handler's record when the creation loop is done and the file list
\* is awaited; recorded tells the names whose id is truthy
CreatedCall(recorded, installationId) ==
    LET r0 == Receive(FullPayload("opened", 1, installationId))
    IN  [r0 EXCEPT
           !.pc = "listFiles", !.octokit = TRUE, !.installationToken = TRUE,
           !.next = Len(checkRuns),
           !.checkRunIds = [n \in CheckRunName |->
                               IF n \notin recorded THEN 0
                               ELSE IF n = "CI/check" THEN 1 ELSE 2],
           !.calls = @ \cup {"checks.create:CI/check", "checks.create:CI/autofix",
                             "pulls.listFiles"}]

FinalizeInit ==
    /\ \E recorded \in SUBSET CheckRunName :
       \E installationId \in {FreeInstallation, ProInstallation} :
          ev = [t \in Tasks |->
                  IF t = 1 THEN CreatedCall(recorded, installationId) ELSE IdleEv]
    /\ checkStore = [i \in CheckIds |->
          IF i \in {1, 2}
          THEN PlatformRun(
                   CreateParams([owner |-> "octo-org", repo |-> "demo",
                                 name |-> IF i = 1 THEN "CI/check" ELSE "CI/autofix",
                                 headSha |-> 1, status |-> "in_progress",
                                 conclusion |-> "", output |-> inProgressOutput]),
                   1)
          ELSE NoCheckRun]
    /\ lastCommentedShaByPull = [p \in Pulls |-> 0]
    /\ comments = [k \in Pulls \X Shas |-> 0]
    /\ settingsIssue = SeedIssue
    /\ enabledByActor = SeedIssue.user
    /\ edits = 0

\* the steps of the handler after the creation loop
FinalizeNext ==
    \E t \in Tasks :
        \/ ListPullRequestFiles(t)
        \/ FinalizeSkipped(t)
        \/ GetRepoSettingsFromIssue(t)
        \/ UpdateSettingsIssue(t)
        \/ VerifyRepoAdmin(t)
        \/ Mkdtemp(t)
        \/ GitCheckout(t)
        \/ EnsureRuff(t)
        \/ RuffFormat(t)
        \/ RuffCheckFix(t)
        \/ EnsureBlack(t)
        \/ PipInstallBlack(t)
        \/ RunBlack(t)
        \/ GitStatus(t)
        \/ GitAdd(t)
        \/ GitCommit(t)
        \/ GitPush(t)
        \/ VerifyFormat(t)
        \/ VerifyLint(t)
        \/ RemoveTempDir(t)
        \/ CompleteCheck(t)
        \/ CompleteAutofix(t)
        \/ PostComment(t)
        \/ CatchFinalize(t)

FinalizeSpec == FinalizeInit /\ [][FinalizeNext]_vars

(* ------------------------------------------------------------------ *)
(* Specification: createCheckRun is called with every input             *)
(* ------------------------------------------------------------------ *)
\* outputs with and without text
CheckOutputs ==
    [title : {Title}, summary : {<<"Autofix started.">>},
     text : {NoText, <<"details">>}]

CreateCheckRunInputs ==
    [owner : {"octo-org"}, repo : {"demo"}, name : CheckRunName, headSha : Shas,
     status : {"in_progress", "completed"},
     conclusion : {"", "success"},
     output : CheckOutputs]

\* a caller's record when createCheckRun(octokit, input) has settled: the
\* promise resolved to the platform's id, or it rejected
CreateReturned(input, id) ==
    [IdleEv EXCEPT !.pc = "done", !.ended = "returned", !.octokit = TRUE,
                   !.input = input, !.checkRunIds[input.name] = id,
                   !.calls = {"checks.create:" \o input.name}]

CreateThrew(input) ==
    [IdleEv EXCEPT !.pc = "done", !.ended = "crashed", !.octokit = TRUE,
                   !.error = [status |-> 422, message |-> <<"Validation Failed">>],
                   !.calls = {"checks.create:" \o input.name}]

\* createCheckRun: octokit.rest.checks.create creates the run and answers
\* with its id, or rejects
CallCreateCheckRun(t, input) ==
    /\ CanStart(t)
    /\ \/ /\ checkStore' = [checkStore EXCEPT ![FreeId] =
                PlatformRun(CreateParams(input), t)]
          /\ Set(t, CreateReturned(input, FreeId))
       \/ /\ UNCHANGED checkStore
          /\ Set(t, CreateThrew(input))
    /\ UNCHANGED <<lastCommentedShaByPull, comments, settingsIssue,
                   enabledByActor, edits>>

ChecksNext ==
    \E t \in Tasks, input \in CreateCheckRunInputs : CallCreateCheckRun(t, input)

ChecksSpec == AuthInit /\ [][ChecksNext]_vars

(* ------------------------------------------------------------------ *)
(* Specification: the handlers of several deliveries for one head       *)
(* commit overlap (webhooks.on does not await a handler); each has run   *)
(* its pipeline and is suspended at its network calls                    *)
(* ------------------------------------------------------------------ *)
\* results a pipeline may have returned
OverlapResults ==
    { BuildResult(passed, appliedFixes, FALSE, "", FALSE) :
        passed \in BOOLEAN, appliedFixes \in BOOLEAN }

\* the handler's record of task t when runAutofix has built result and
\* awaits the removal of its workspace
PipelineDone(t, result) ==
    LET r0 == Receive(FullPayload("synchronize", 1, FreeInstallation))
    IN  [r0 EXCEPT
           !.pc = "cleanupReturn", !.octokit = TRUE, !.installationToken = TRUE,
           !.next = Len(checkRuns),
           !.checkRunIds = [n \in CheckRunName |->
                               IF n = "CI/check" THEN 2 * t - 1 ELSE 2 * t],
           !.listed = TRUE, !.files = <<ReadmeMd, APy>>,
           !.tempDir = "exists", !.autofixResult = result,
           !.calls = @ \cup {"checks.create:CI/check", "checks.create:CI/autofix",
                             "pulls.listFiles", "issues.listForRepo", "mkdtemp",
                             "git clone", "ruff --version", "ruff format .",
                             "ruff format --check .", "ruff check .", "rm"}]

OverlapInit ==
    /\ \E results \in [Tasks -> OverlapResults] :
          ev = [t \in Tasks |-> PipelineDone(t, results[t])]
    /\ checkStore = [i \in CheckIds |->
          PlatformRun(
              CreateParams([owner |-> "octo-org", repo |-> "demo",
                            name |-> IF i % 2 = 1 THEN "CI/check" ELSE "CI/autofix",
                            headSha |-> 1, status |-> "in_progress",
                            conclusion |-> "", output |-> inProgressOutput]),
              (i + 1) \div 2)]
    /\ lastCommentedShaByPull = [p \in Pulls |-> 0]
    /\ comments = [k \in Pulls \X Shas |-> 0]
    /\ settingsIssue = NoIssue
    /\ enabledByActor = ""
    /\ edits = 0

\* the steps of the handlers after their pipelines, in any interleaving
OverlapNext ==
    \E t \in Tasks :
        \/ RemoveTempDir(t)
        \/ CompleteCheck(t)
        \/ CompleteAutofix(t)
        \/ CatchFinalize(t)
        \/ PostComment(t)

OverlapSpec == OverlapInit /\ [][OverlapNext]_vars

(* ------------------------------------------------------------------ *)
(* Specification: the pipelines of several deliveries for one pull      *)
(* request overlap, each in its own clone of the same head, and each    *)
(* has rewritten files                                                   *)
(* ------------------------------------------------------------------ *)
\* the handler's record of task t when the tools have rewritten files in
\* its clone and git status is awaited
RewrittenClone(t) ==
    LET r0 == Receive(FullPayload("synchronize", 1, FreeInstallation))
    IN  [r0 EXCEPT
           !.pc = "status", !.octokit = TRUE, !.installationToken = TRUE,
           !.next = Len(checkRuns),
           !.checkRunIds = [n \in CheckRunName |->
                               IF n = "CI/check" THEN 2 * t - 1 ELSE 2 * t],
           !.listed = TRUE, !.files = <<ReadmeMd, APy>>,
           !.tempDir = "exists", !.treeChanged = TRUE, !.base = 0,
           !.calls = @ \cup {"checks.create:CI/check", "checks.create:CI/autofix",
                             "pulls.listFiles", "issues.listForRepo", "mkdtemp",
                             "git clone", "ruff --version", "ruff format .",
                             checkFixArgs(FALSE)}]

PushInit ==
    /\ ev = [t \in Tasks |-> RewrittenClone(t)]
    /\ checkStore = [i \in CheckIds |->
          PlatformRun(
              CreateParams([owner |-> "octo-org", repo |-> "demo",
                            name |-> IF i % 2 = 1 THEN "CI/check" ELSE "CI/autofix",
                            headSha |-> 1, status |-> "in_progress",
                            conclusion |-> "", output |-> inProgressOutput]),
              (i + 1) \div 2)]
    /\ lastCommentedShaByPull = [p \in Pulls |-> 0]
    /\ comments = [k \in Pulls \X Shas |-> 0]
    /\ settingsIssue = NoIssue
    /\ enabledByActor = ""
    /\ edits = 0

\* the steps of the pipelines from git status on and of their handlers
\* after them, in any interleaving
PushNext ==
    \E t \in Tasks :
        \/ GitStatus(t)
        \/ GitAdd(t)
        \/ GitCommit(t)
        \/ GitPush(t)
        \/ VerifyFormat(t)
        \/ VerifyLint(t)
        \/ RemoveTempDir(t)
        \/ CompleteCheck(t)
        \/ CompleteAutofix(t)
        \/ CatchFinalize(t)
        \/ PostComment(t)

PushSpec == PushInit /\ [][PushNext]_vars

LintFixSafe == "ruff check . --fix"
LintFixUnsafe == "ruff check . --fix --unsafe-fixes"

\* calls of the settings read and of the admin lookup
SettingsCalls ==
    {"issues.listForRepo", "issues.update", "repos.getCollaboratorPermissionLevel"}

\* calls of the pipeline stages
PipelineCalls ==
    {"mkdtemp", "git clone", "ruff --version", "ruff format .", LintFixSafe,
     LintFixUnsafe, "git add -A", "git commit", "git push origin HEAD:feature",
     "ruff format --check .", "ruff check .", "rm"}

\* the check runs task t created
RunsOf(t) == {i \in CheckIds : checkStore[i].status # "none" /\ checkStore[i].task = t}

\* the check run of task t with the given name (both were created)
RunOf(t, name) == checkStore[ev[t].checkRunIds[name]]

\* the event of task t got its credential and both check runs, and the file
\* list it was given holds no name ending in ".py"
NoPythonEvent(t) ==
    /\ ev[t].octokit
    /\ \A n \in CheckRunName : ev[t].checkRunIds[n] # 0
    /\ ev[t].listed
    /\ \A i \in 1..Len(ev[t].files) : ~EndsWith(ev[t].files[i], <<".", "p", "y">>)

SkippedSuccess(run) ==
    /\ run.status = "completed"
    /\ run.conclusion = "success"
    /\ run.output.summary = <<"Skipped: no Python changes.">>
    /\ run.output.text = <<"Skipped: no Python changes.">>

C2_EveryCheckRunCompleted ==
    \A t \in Tasks :
        ev[t].pc = "done" =>
            \A i \in RunsOf(t) :
                \/ checkStore[i].status = "completed"
                \/ ("checks.update:CI/check" \in ev[t].calls /\ checkStore[i].name = "CI/check")
                \/ ("checks.update:CI/autofix" \in ev[t].calls /\ checkStore[i].name = "CI/autofix")

\* the three conditions of the unsafe-fixes gate, as the event observed them
PlanIsPro(t) == ev[t].plan = "pro"
Requested(t) == ev[t].settings.enableUnsafeFixes
EnablerIsAdmin(t) == ev[t].lookup = "admin"

\* the lint-fix step of the event of task t has run
LintFixRan(t) == ev[t].calls \cap {LintFixSafe, LintFixUnsafe} # {}

\* C3: an event whose lint-fix step has run ran it with --unsafe-fixes if and
\* only if the plan is pro, the settings have enableUnsafeFixes = true and
\* the attributed enabler was verified as admin; and the result's
\* unsafeFixesUsed says the same.
C3_UnsafeGate ==
    \A t \in Tasks :
        (LintFixRan(t) /\ ~ev[t].caught) =>
            LET gate == PlanIsPro(t) /\ Requested(t) /\ EnablerIsAdmin(t)
            IN  /\ (LintFixUnsafe \in ev[t].calls) <=> gate
                /\ (LintFixSafe \in ev[t].calls) <=> ~gate
                /\ ev[t].autofixResult # NullResult =>
                      (ev[t].autofixResult.unsafeFixesUsed <=> gate)

\* an event on the pro plan, requested and verified, used unsafe fixes
C3_Witness ==
    \E t \in Tasks :
        /\ ev[t].pc = "done"
        /\ PlanIsPro(t) /\ Requested(t) /\ EnablerIsAdmin(t)
        /\ LintFixUnsafe \in ev[t].calls
        /\ ev[t].autofixResult.unsafeFixesUsed

\* C4: when the permission lookup for the recorded enabler throws or returns
\* a permission other than admin, the resolver yields adminVerified = false
\* with the fixed skip reason, the event fails at most later in the pipeline,
\* and unsafe fixes are not used.
C4_FailClosed ==
    \A t \in Tasks :
        ev[t].lookup \notin {"none", "admin"} =>
            /\ LintFixUnsafe \notin ev[t].calls
            /\ "mkdtemp" \in ev[t].calls
            /\ ~ev[t].caught =>
                  /\ ev[t].unsafeFixesSetting =
                        [requested |-> TRUE, adminVerified |-> FALSE,
                         skipReason |->
                            "Unsafe fixes requested but not enabled by a repo admin; skipping."]
                  /\ ~ev[t].enableUnsafeFixes
                  /\ ev[t].autofixResult # NullResult =>
                        ~ev[t].autofixResult.unsafeFixesUsed

\* on the pro plan the lookup threw and the event completed without unsafe
\* fixes
C4_Witness ==
    \E t \in Tasks :
        /\ ev[t].pc = "done"
        /\ PlanIsPro(t) /\ Requested(t)
        /\ ev[t].lookup = "throw"
        /\ ev[t].result \in {"completed_success", "completed_failure"}
        /\ LintFixSafe \in ev[t].calls
        /\ ~ev[t].autofixResult.unsafeFixesUsed

\* C5: unsafe fixes run only when the user whose edit of the settings issue
\* turned enableUnsafeFixes on has admin permission.
C5_EnablingUserIsAdmin ==
    \A t \in Tasks :
        LintFixUnsafe \in ev[t].calls =>
            /\ ev[t].actor # ""
            /\ PermissionOf(ev[t].actor) = "admin"

AdminSkipSetting ==
    [requested |-> TRUE, adminVerified |-> FALSE,
     skipReason |-> "Unsafe fixes requested but not enabled by a repo admin; skipping."]

\* on the pro plan the event read a settings issue whose body is
\* {"enableUnsafeFixes": true} and nothing else
ReadUnattributed(t) ==
    /\ ev[t].plan = "pro"
    /\ ev[t].issue.exists
    /\ ev[t].issue.body = ObjectBody("true", "", "")

\* the resolver of the event of task t has returned
Resolved(t) == "mkdtemp" \in ev[t].calls /\ ~ev[t].caught

HasSuffix(summary, suffix) == Len(summary) = 2 /\ summary[2] = suffix

\* C6 as stated: on the pro plan with the body {"enableUnsafeFixes": true}
\* and no attribution, whoever wrote the issue, the resolver returns
\* requested = true and adminVerified = false with the fixed skip reason, and
\* the result has unsafeFixesUsed = false and the skip reason as suffix.
C6_NeverEnabledUnattributed ==
    \A t \in Tasks :
        ReadUnattributed(t) =>
            /\ Resolved(t) => ev[t].unsafeFixesSetting = AdminSkipSetting
            /\ ev[t].autofixResult # NullResult =>
                  /\ ~ev[t].autofixResult.unsafeFixesUsed
                  /\ HasSuffix(ev[t].autofixResult.summary, AdminSkipSetting.skipReason)

\* C6 (amended): on the pro plan with the body {"enableUnsafeFixes": true} and
\* no attribution, the enabler is the author of the settings issue.  With no
\* author, or when the lookup of the author's permission throws or returns
\* another permission than admin, the resolver returns requested = true and
\* adminVerified = false with the fixed skip reason, unsafeFixesUsed is false
\* and the suffix is the skip reason; with the author verified as admin,
\* adminVerified is true and unsafeFixesUsed is true.
C6_AuthorIsEnabler ==
    \A t \in Tasks :
        ReadUnattributed(t) =>
            LET author == ev[t].issue.user
                verified == author # "" /\ ev[t].lookup = "admin"
            IN  /\ Resolved(t) =>
                      /\ author # "" => ev[t].lookup \in {PermissionOf(author), "throw"}
                      /\ author = "" => ev[t].lookup = "none"
                      /\ ev[t].unsafeFixesSetting =
                            IF verified
                            THEN [requested |-> TRUE, adminVerified |-> TRUE,
                                  skipReason |-> ""]
                            ELSE AdminSkipSetting
                /\ ev[t].autofixResult # NullResult =>
                      /\ ev[t].autofixResult.unsafeFixesUsed <=> verified
                      /\ HasSuffix(ev[t].autofixResult.summary,
                                   IF verified THEN "Unsafe fixes enabled (Pro)."
                                   ELSE AdminSkipSetting.skipReason)

\* the issue was written by a user without admin permission and the event
\* completed with the skip reason
C6_Witness ==
    \E t \in Tasks :
        /\ ev[t].pc = "done"
        /\ ReadUnattributed(t)
        /\ ev[t].issue.user = "bob"
        /\ ev[t].lookup = "write"
        /\ ~ev[t].autofixResult.unsafeFixesUsed
        /\ HasSuffix(ev[t].autofixResult.summary, AdminSkipSetting.skipReason)

\* the payload lacks a required context field
MissingField(payload) ==
    \/ payload.owner = ""
    \/ payload.repo = ""
    \/ payload.number = 0
    \/ payload.sha = 0
    \/ payload.ref = ""
    \/ payload.full_name = ""
    \/ payload.html_url = ""

AllowList == {"opened", "synchronize", "reopened", "ready_for_review"}

\* C7: an event with an action of the allow-list whose payload lacks a
\* required context field is over at once, after a warning, without any
\* external call (credential, check run, comment, pipeline) and without a
\* check run.
C7_MissingContextRejected ==
    \A t \in Tasks :
        (/\ ev[t].pc # "idle"
         /\ ev[t].payload.action \in AllowList
         /\ MissingField(ev[t].payload)) =>
            /\ ev[t].pc = "done"
            /\ ev[t].ended = "returned"
            /\ ev[t].warned # ""
            /\ ev[t].calls = {}
            /\ RunsOf(t) = {}

\* an opened event without head sha was rejected
C7_Witness ==
    \E t \in Tasks :
        /\ ev[t].pc = "done"
        /\ ev[t].payload = [FullPayload("opened", 1, FreeInstallation) EXCEPT !.sha = 0]
        /\ ev[t].warned = "pull_request payload missing required fields."
        /\ ev[t].calls = {}

\* C8: the step that takes an event whose action is outside the allow-list
\* ends the event at once: no external call, no warning, and no change of a
\* check run, of the comment ledger, of the comments or of the settings
\* issue.
C8_UnsupportedActionIgnored ==
    [][\A t \in Tasks :
         (/\ ev[t].pc = "idle"
          /\ ev'[t].pc # "idle"
          /\ ev'[t].payload.action \notin AllowList) =>
             /\ ev'[t].pc = "done"
             /\ ev'[t].calls = {}
             /\ ev'[t].warned = ""
             /\ ev'[t].usage = <<>>
             /\ UNCHANGED <<checkStore, lastCommentedShaByPull, comments,
                            settingsIssue>>]_vars

\* a complete closed event was ignored
C8_Witness ==
    \E t \in Tasks :
        /\ ev[t].pc = "done"
        /\ ev[t].payload = FullPayload("closed", 1, FreeInstallation)
        /\ ev[t].calls = {}

\* C9: at most one comment was posted for each pair of pull request and head
\* sha.
C9_OneCommentPerHeadSha ==
    \A k \in Pulls \X Shas : comments[k] <= 1

\* C10: when the catch block of the handler has finalized the check runs of
\* an event that had both, CI/check has conclusion failure and CI/autofix has
\* conclusion neutral.
C10_FailureNeutralPair ==
    \A t \in Tasks :
        (/\ ev[t].pc = "done"
         /\ ev[t].caught
         /\ ev[t].ended = "returned"
         /\ \A n \in CheckRunName : ev[t].checkRunIds[n] # 0) =>
            /\ RunOf(t, "CI/check").status = "completed"
            /\ RunOf(t, "CI/check").conclusion = "failure"
            /\ RunOf(t, "CI/autofix").status = "completed"
            /\ RunOf(t, "CI/autofix").conclusion = "neutral"

\* the event passed the checks before the try block: an action of the
\* allow-list, a pull_request with every context field, an installation id
Validated(t) ==
    /\ ev[t].payload.action \in AllowList
    /\ ev[t].payload.pull_request
    /\ ~MissingField(ev[t].payload)
    /\ ev[t].payload.installation # 0

\* C11 as stated: every event whose handler has ended, in whichever way, has
\* exactly one usage record.
C11_UsageForEveryEvent ==
    \A t \in Tasks : ev[t].pc = "done" => Len(ev[t].usage) = 1

\* C11 (amended): an event with an action of the allow-list, a complete
\* context and an installation id has exactly one usage record when its
\* handler has ended (returned or crashed) and none before; an event that is
\* ignored or rejected before the try block has no usage record.
C11_UsageOncePerProcessedEvent ==
    \A t \in Tasks :
        /\ (ev[t].pc = "done" /\ Validated(t)) => Len(ev[t].usage) = 1
        /\ (ev[t].pc = "done" /\ ~Validated(t)) => ev[t].usage = <<>>
        /\ ev[t].pc # "done" => ev[t].usage = <<>>

\* an event whose handler crashed in the catch block has its usage record
C11_Witness ==
    \E t \in Tasks :
        /\ ev[t].pc = "done"
        /\ Validated(t)
        /\ ev[t].ended = "crashed"
        /\ Len(ev[t].usage) = 1

\* a create call of the event of task t has thrown
CreateFailed(t) ==
    /\ ev[t].pc # "create"
    /\ \E n \in CheckRunName :
          /\ ("checks.create:CI/check" \in ev[t].calls /\ n = "CI/check")
             \/ ("checks.create:CI/autofix" \in ev[t].calls /\ n = "CI/autofix")
          /\ ev[t].checkRunIds[n] = 0

\* C12: when the creation of a check run has failed, the handler has
\* returned with outcome check_create_failed, the catch block did not run,
\* and besides the credential request and the create calls up to the failing
\* one no call was made: no further create, no file listing, no settings
\* read, no admin lookup, no pipeline stage, no update and no comment.
C12_CheckCreateFailureAborts ==
    \A t \in Tasks :
        CreateFailed(t) =>
            /\ ev[t].pc = "done"
            /\ ev[t].ended = "returned"
            /\ ~ev[t].caught
            /\ ev[t].result = "check_create_failed"
            /\ ev[t].usage = <<"check_create_failed">>
            /\ ev[t].calls \subseteq
                  {"apps.createInstallationAccessToken",
                   "checks.create:CI/check", "checks.create:CI/autofix"}
            /\ ev[t].checkRunIds["CI/check"] = 0 =>
                  "checks.create:CI/autofix" \notin ev[t].calls
            /\ \A i \in RunsOf(t) : checkStore[i].name = "CI/check"

\* CI/check was created and the creation of CI/autofix failed
C12_Witness ==
    \E t \in Tasks :
        /\ CreateFailed(t)
        /\ ev[t].checkRunIds["CI/check"] # 0
        /\ ev[t].checkRunIds["CI/autofix"] = 0
        /\ ev[t].result = "check_create_failed"

\* the check runs of task t with the given name
RunsNamed(t, name) == {i \in RunsOf(t) : checkStore[i].name = name}

InRunAutofix(t) ==
    ev[t].pc \in {"clone", "ensureRuff", "format", "lintfix", "ensureBlack",
                  "pipInstall", "black", "status", "add", "commit", "push",
                  "verifyFormat", "verifyLint", "cleanupReturn", "cleanupThrow"}

PushCall == "git push origin HEAD:feature"

\* C15: a commit and a push are issued only after a non-empty working-tree
\* status, and a pipeline that returns a result has issued both exactly when
\* the status was non-empty; the only push is HEAD:<headRef> to origin, with
\* the head ref of the pull request; appliedFixes of the result is true
\* exactly when that push succeeded
C15_CommitPushIffChanges ==
    \A t \in Tasks :
        /\ ("git add -A" \in ev[t].calls) = (ev[t].porcelain = "changes")
        /\ "git commit" \in ev[t].calls => "git add -A" \in ev[t].calls
        /\ PushCall \in ev[t].calls => "git commit" \in ev[t].calls
        /\ (PushCall \in ev[t].calls) = (ev[t].pushRef # "")
        /\ ev[t].pushRef \in {"", ev[t].payload.ref}
        /\ ev[t].autofixResult # NullResult =>
              /\ ev[t].porcelain # "none"
              /\ ("git commit" \in ev[t].calls) = (ev[t].porcelain = "changes")
              /\ (PushCall \in ev[t].calls) = (ev[t].porcelain = "changes")
              /\ ev[t].autofixResult.appliedFixes = (PushCall \in ev[t].calls)

\* a pipeline returned a result after pushing a commit to the head ref
C15_Witness ==
    \E t \in Tasks :
        /\ ev[t].autofixResult # NullResult
        /\ ev[t].porcelain = "changes"
        /\ ev[t].pushRef = "feature"
        /\ ev[t].autofixResult.appliedFixes

\* the commands that stage, commit and publish a fix
GitWrites == {"git add -A", "git commit", "git push origin HEAD:feature"}

\* the pipeline of task t produced a result on a tree that the formatter,
\* the lint-fix and the secondary formatter left as it was cloned
UnchangedRun(t) ==
    /\ ev[t].autofixResult # NullResult \/ ev[t].pc = "archived"
    /\ ~ev[t].treeChanged

\* appliedFixes of the result of the run of task t
AppliedFixes(t) ==
    IF ev[t].pc = "archived" THEN ev[t].appliedFixes
    ELSE ev[t].autofixResult.appliedFixes

\* C16: every run of the pipeline on a head tree that the formatter, the
\* lint-fix and the secondary formatter leave unchanged yields
\* appliedFixes = false and issues no git add, commit or push; so do two
\* runs for the same head commit
C16_Idempotent ==
    \A t \in Tasks :
        UnchangedRun(t) =>
            /\ ~AppliedFixes(t)
            /\ ev[t].calls \cap GitWrites = {}
            /\ ev[t].porcelain = "empty"

\* a run for a head commit found nothing to change, and so did the next run
\* for the same head commit
C16_Witness ==
    \E t, u \in Tasks :
        /\ ev[t].pc = "archived" /\ ev[u].pc = "done"
        /\ UnchangedRun(t) /\ UnchangedRun(u)
        /\ ev[t].context.headSha = ev[u].context.headSha
        /\ ~AppliedFixes(t) /\ ~AppliedFixes(u)

\* the lint-fix was issued, in either form
LintFixIssued(t) ==
    "ruff check . --fix" \in ev[t].calls
        \/ "ruff check . --fix --unsafe-fixes" \in ev[t].calls

\* the commands of the stages after the formatter
AfterFormatCalls ==
    {"ruff check . --fix", "ruff check . --fix --unsafe-fixes", "git add -A",
     "git commit", "git push origin HEAD:feature", "ruff format --check .",
     "ruff check ."}

\* 'ruff format .' exited non-zero in the run of task t
FormatFailed(t) == ev[t].formatCode # 0

\* a command of a stage is issued only after the commands of the stages
\* before it
StagesInOrder(t) ==
    LET calls == ev[t].calls
    IN  /\ "git clone" \in calls => "mkdtemp" \in calls
        /\ "ruff --version" \in calls => "git clone" \in calls
        /\ "ruff format ." \in calls => "ruff --version" \in calls
        /\ LintFixIssued(t) => "ruff format ." \in calls /\ ev[t].formatCode = 0
        /\ ev[t].pc \in {"ensureBlack", "pipInstall", "black", "status"} =>
              /\ LintFixIssued(t)
              /\ ev[t].porcelain = "none"
              /\ calls \cap {"git add -A", "git commit",
                              "git push origin HEAD:feature",
                              "ruff format --check .", "ruff check ."} = {}
        /\ ev[t].porcelain # "none" => LintFixIssued(t)
        /\ "git add -A" \in calls => ev[t].porcelain = "changes"
        /\ "git commit" \in calls => "git add -A" \in calls
        /\ "git push origin HEAD:feature" \in calls => "git commit" \in calls
        /\ "ruff format --check ." \in calls =>
              /\ ev[t].porcelain # "none"
              /\ ev[t].porcelain = "changes" => "git push origin HEAD:feature" \in calls
        /\ "ruff check ." \in calls => "ruff format --check ." \in calls

C18_LintFixExitNotFatal ==
    \A t \in Tasks :
        ev[t].lintFixCode # 0 =>
            /\ ev[t].pc \in {"ensureBlack", "pipInstall", "black", "status", "add",
                              "commit", "push", "verifyFormat", "verifyLint",
                              "cleanupReturn", "cleanupThrow"}
            /\ ev[t].pc = "cleanupThrow" =>
                  ev[t].error.message \in
                      {<<"Command failed: python -m pip install black.">>,
                       <<"Command failed: git add -A.">>,
                       <<"Command failed: git commit.">>,
                       <<"Command failed: git push.">>}
            /\ ev[t].pc = "cleanupReturn" =>
                  /\ ev[t].autofixResult # NullResult
                  /\ ev[t].porcelain # "none"
                  /\ {"ruff format --check .", "ruff check ."} \subseteq ev[t].calls

\* the lint-fix exited non-zero and runAutofix is returning a result
C18_Witness ==
    \E t \in Tasks :
        /\ ev[t].lintFixCode # 0
        /\ ev[t].pc = "cleanupReturn"
        /\ ev[t].autofixResult # NullResult

\* C19: in every AutofixResult that runAutofix returns, checkConclusion is
\* success exactly when 'ruff format --check .' and 'ruff check .' both
\* exited with code 0, and failure otherwise, whatever the push and the exit
\* code of the lint-fix were
C19_ConclusionIsVerification ==
    \A t \in Tasks :
        ev[t].pc = "cleanupReturn" =>
            /\ ev[t].autofixResult.checkConclusion \in {"success", "failure"}
            /\ (ev[t].autofixResult.checkConclusion = "success")
                  = (ev[t].formatCheck = 0 /\ ev[t].lintCheck = 0)

\* a result with conclusion success after a lint-fix that exited non-zero
\* and a pushed commit
C19_Witness ==
    \E t \in Tasks :
        /\ ev[t].pc = "cleanupReturn"
        /\ ev[t].lintFixCode # 0
        /\ ev[t].autofixResult.appliedFixes
        /\ ev[t].formatCheck = 0 /\ ev[t].lintCheck = 0
        /\ ev[t].autofixResult.checkConclusion = "success"

\* runAutofix returned a result to the handler of task t: the verification
\* ran and the workspace was removed
Returned(t) == "ruff check ." \in ev[t].calls /\ ev[t].tempDir = "removed"

C21_OneSuffixByPriority ==
    \A t \in Tasks :
        ev[t].pc = "cleanupReturn" =>
            LET r == ev[t].autofixResult
                skip == ev[t].unsafeFixesSetting.skipReason
            IN  /\ Len(r.summary) \in {1, 2}
                /\ r.summary[1] \in
                      {"Applied Python formatting fixes.",
                       "No formatting changes needed.",
                       "Formatting completed, but lint checks still report issues."}
                /\ IF r.unsafeFixesUsed
                   THEN r.summary = <<r.summary[1], "Unsafe fixes enabled (Pro).">>
                   ELSE IF skip # ""
                   THEN r.summary = <<r.summary[1], skip>>
                   ELSE IF r.hiddenFixesAvailable
                   THEN r.summary = <<r.summary[1],
                        "Pro can enable Unsafe Fixes to attempt to auto-fix these.">>
                   ELSE Len(r.summary) = 1

\* unsafe fixes were used, a skip reason was supplied and hidden fixes were
\* detected: the one suffix is the unsafe-fixes note
C21_Witness ==
    \E t \in Tasks :
        /\ ev[t].pc = "cleanupReturn"
        /\ ev[t].autofixResult.unsafeFixesUsed
        /\ ev[t].unsafeFixesSetting.skipReason # ""
        /\ ev[t].autofixResult.hiddenFixesAvailable
        /\ ev[t].autofixResult.summary[2] = "Unsafe fixes enabled (Pro)."

\* the handler of task t holds a result of the pipeline that neither applied
\* fixes nor failed the verification
QuietResult(t) ==
    /\ ~ev[t].caught
    /\ ev[t].autofixResult # NullResult
    /\ ~ev[t].autofixResult.appliedFixes
    /\ ev[t].autofixResult.checkConclusion = "success"

\* C22, the comment: outside the catch block a comment request is issued
\* only for a result with appliedFixes true or checkConclusion failure
C22_NoCommentForQuietResult ==
    \A t \in Tasks :
        QuietResult(t) =>
            /\ "issues.createComment" \notin ev[t].calls
            /\ ev[t].pc # "comment"

\* C22, the ledger: a step that changes the dedup ledger or the comments is
\* the settling of a comment request, never a step of a handler that holds
\* a result without applied fixes and with conclusion success
C22_LedgerStep ==
    (lastCommentedShaByPull' # lastCommentedShaByPull \/ comments' # comments) =>
        \E t \in Tasks :
            /\ ev[t].pc = "comment" /\ ev'[t].pc = "done"
            /\ ~QuietResult(t)
            /\ \A u \in Tasks \ {t} : ev'[u] = ev[u]

C23_WriteOnlyBackfills ==
    \A t \in Tasks :
        LET read == ev[t].issue.body
            written == ev[t].body
        IN  ("issues.update" \in ev[t].calls \/ ev[t].pc = "settingsUpdate") =>
                /\ ev[t].issue.exists
                /\ read.kind = "object"
                /\ read.enableUnsafeFixes = "true"
                /\ read.unsafeFixesEnabledBy = "" \/ read.unsafeFixesEnabledAt = ""
                /\ written.kind = "object"
                /\ written.enableUnsafeFixes = read.enableUnsafeFixes
                /\ written.unknown = read.unknown
                /\ written.unsafeFixesEnabledBy # ""
                /\ written.unsafeFixesEnabledAt # ""

\* C23, the write: the settings issue changes only when a requested write
\* settles, and then only its body, to the body of the request
C23_WriteStep ==
    settingsIssue' # settingsIssue =>
        \E t \in Tasks :
            /\ ev[t].pc = "settingsUpdate"
            /\ settingsIssue' = [settingsIssue EXCEPT !.body = ev[t].body]

\* C23: the adapter rewrites the settings issue body only to backfill
\* attribution: a write happens only when enableUnsafeFixes is true and the
\* enabler or the timestamp was missing, never when it is false, and every
\* body written has the enableUnsafeFixes value and the unknown keys of the
\* body read
C23_AdapterOnlyBackfills ==
    [](C23_WriteOnlyBackfills) /\ [][C23_WriteStep]_vars

\* a body with another key and no enabler was rewritten: the key is kept
C23_Witness ==
    \E t \in Tasks :
        /\ "issues.update" \in ev[t].calls
        /\ ev[t].pc = "mkdtemp"
        /\ ev[t].issue.body.unknown = {"notes"}
        /\ ev[t].issue.body.unsafeFixesEnabledBy = ""
        /\ settingsIssue.body = ev[t].body
        /\ settingsIssue.body # ev[t].issue.body
        /\ settingsIssue.body.unknown = {"notes"}

\* the settings read of task t is over, and it found no issue, a body that
\* is empty, no JSON or no object, or an enableUnsafeFixes that is no
\* boolean; or the issue list was not returned
Unreadable(t) ==
    /\ ev[t].pc # "settings"
    /\ "issues.listForRepo" \in ev[t].calls
    /\ \/ ~ev[t].issue.exists
       \/ ev[t].issue.body.kind # "object"
       \/ ev[t].issue.body.enableUnsafeFixes = "other"

\* no write, no admin lookup, and the pipeline starts with unsafe fixes off
ProceedsDisabled(t) ==
    /\ "issues.update" \notin ev[t].calls
    /\ "repos.getCollaboratorPermissionLevel" \notin ev[t].calls
    /\ ev[t].pc = "mkdtemp"
    /\ ~ev[t].caught
    /\ ev[t].unsafeFixesSetting =
          [requested |-> FALSE, adminVerified |-> FALSE, skipReason |-> ""]
    /\ ~ev[t].enableUnsafeFixes

\* C24 as stated: in each of these cases the adapter returns
\* enableUnsafeFixes false with no enabler and no timestamp
C24_AllDisabledDefaults ==
    \A t \in Tasks :
        Unreadable(t) =>
            /\ ev[t].settings =
                  [enableUnsafeFixes |-> FALSE, unsafeFixesEnabledBy |-> "",
                   unsafeFixesEnabledAt |-> ""]
            /\ ProceedsDisabled(t)

\* C24: in each of these cases the adapter returns enableUnsafeFixes false,
\* writes nothing, no admin lookup follows and the event proceeds with
\* unsafe fixes off; enabler and timestamp are absent too, except that an
\* object body whose enableUnsafeFixes is no boolean passes its own enabler
\* and timestamp through
C24_UnreadableMeansDisabled ==
    \A t \in Tasks :
        Unreadable(t) =>
            /\ ~ev[t].settings.enableUnsafeFixes
            /\ ProceedsDisabled(t)
            /\ IF ev[t].issue.exists /\ ev[t].issue.body.kind = "object"
               THEN /\ ev[t].settings.unsafeFixesEnabledBy
                         = ev[t].issue.body.unsafeFixesEnabledBy
                    /\ ev[t].settings.unsafeFixesEnabledAt
                         = ev[t].issue.body.unsafeFixesEnabledAt
               ELSE /\ ev[t].settings.unsafeFixesEnabledBy = ""
                    /\ ev[t].settings.unsafeFixesEnabledAt = ""

\* a body whose enableUnsafeFixes is no boolean names an enabler: unsafe
\* fixes are off and the enabler is returned
C24_Witness ==
    \E t \in Tasks :
        /\ Unreadable(t)
        /\ ev[t].issue.body.enableUnsafeFixes = "other"
        /\ ev[t].issue.body.unsafeFixesEnabledBy = "alice"
        /\ ev[t].settings.unsafeFixesEnabledBy = "alice"
        /\ ~ev[t].settings.enableUnsafeFixes
        /\ ev[t].pc = "mkdtemp"

\* C25: when the settings read returned enableUnsafeFixes false, the
\* resolver returns requested false, adminVerified false and no skip
\* reason, and no collaborator-permission lookup is made
C25_DisabledMeansNoLookup ==
    \A t \in Tasks :
        (/\ ev[t].pc # "settings"
         /\ "issues.listForRepo" \in ev[t].calls
         /\ ~ev[t].caught
         /\ ~ev[t].settings.enableUnsafeFixes) =>
            /\ ev[t].unsafeFixesSetting =
                  [requested |-> FALSE, adminVerified |-> FALSE, skipReason |-> ""]
            /\ "repos.getCollaboratorPermissionLevel" \notin ev[t].calls
            /\ ev[t].pc # "verifyAdmin"
            /\ ev[t].lookup = "none"

\* the issue turns unsafe fixes off and names an enabler: no lookup
C25_Witness ==
    \E t \in Tasks :
        /\ ev[t].pc = "mkdtemp"
        /\ ev[t].issue.body.enableUnsafeFixes = "false"
        /\ ev[t].settings.unsafeFixesEnabledBy = "alice"
        /\ ~ev[t].settings.enableUnsafeFixes
        /\ ~ev[t].unsafeFixesSetting.requested
        /\ "repos.getCollaboratorPermissionLevel" \notin ev[t].calls

\* the words of a text
WordsOf(text) == { text[i] : i \in DOMAIN text }

\* every occurrence of the token in the message is x-access-token:<token>@
\* or follows token= or access_token=
EmbedsTokenInForms(message) ==
    \A i \in DOMAIN message :
        message[i] = "ghs_secret" =>
            /\ i > 1
            /\ \/ message[i - 1] \in {"token=", "access_token="}
               \/ /\ message[i - 1] = "x-access-token:"
                  /\ i < Len(message)
                  /\ message[i + 1] = "@"

\* the message of the error task t caught holds the token
CaughtToken(t) ==
    /\ ev[t].caught
    /\ "ghs_secret" \in WordsOf(ev[t].error.message)
    /\ EmbedsTokenInForms(ev[t].error.message)

\* C26: when the message of a caught error embeds the installation token as
\* x-access-token:<token>@ or after token= or access_token=, neither the
\* summary nor the text of a check run of that event nor the comment body
\* holds the token
C26_TokenNeverShown ==
    \A t \in Tasks :
        CaughtToken(t) =>
            /\ "ghs_secret" \notin WordsOf(ev[t].commentBody)
            /\ \A i \in RunsOf(t) :
                  /\ "ghs_secret" \notin WordsOf(checkStore[i].output.summary)
                  /\ "ghs_secret" \notin WordsOf(checkStore[i].output.text)

\* an error whose message holds the token as a parameter was reported in both check runs and in a comment
C26_Witness ==
    \E t \in Tasks :
        /\ CaughtToken(t)
        /\ ev[t].pc = "done"
        /\ ev[t].error.status = 0
        /\ ev[t].error.message = <<"token=", "ghs_secret", "&">>
        /\ ev[t].commentBody = <<"### Python Autofix Pro", "Autofix failed: ",
                                 "token=", "[redacted]", "...<truncated>">>
        /\ \A i \in RunsOf(t) :
              /\ checkStore[i].status = "completed"
              /\ "[redacted]" \in WordsOf(checkStore[i].output.text)

\* the reason and the hint the claim fixes for a status
FixedReason ==
    [s \in {403, 404, 422} |->
        IF s = 403 THEN "missing GitHub App permissions"
        ELSE IF s = 404 THEN "app not installed or wrong repo/ref"
        ELSE "invalid ref/sha or check run update issues"]

FixedHint ==
    [s \in {403, 404, 422} |->
        IF s = 403
        THEN "Ensure the GitHub App has the required permissions (Contents, Pull requests, Issues, Checks) and reinstall or refresh the installation."
        ELSE IF s = 404
        THEN "Verify the GitHub App is installed on the repo and the repo name/ref are correct."
        ELSE "Confirm the ref/SHA exists and check runs can be updated for this commit."]

\* the failure output the claim describes for an error
DescribedFailure(error) ==
    LET message == sanitizeText(error.message)
        cut == IF Len(message) <= 2 THEN message
               ELSE <<message[1], message[2], "...<truncated>">>
    IN  IF error.status \in {403, 404, 422}
        THEN [summary |-> <<"Autofix failed: ", FixedReason[error.status]>>,
              text |-> <<"How to fix: ", FixedHint[error.status],
                         "Docs: docs/TROUBLESHOOTING.md">>]
        ELSE [summary |-> <<"Autofix failed: ">> \o cut,
              text |-> <<"How to fix: ",
                         "Check the error details and resolve the underlying issue before rerunning.",
                         "Error: ">> \o message
                       \o <<"Docs: docs/TROUBLESHOOTING.md">>]

\* C27: a check run completed in the catch block carries, for status 403,
\* 404 or 422, the fixed reason and the fixed hint of that status and not
\* the message; for any other error 'Autofix failed: ' with the sanitized
\* message cut after the summary limit, the generic hint and an 'Error:'
\* line with the sanitized message; its text always ends with the
\* troubleshooting-docs pointer
C27_FailureTextByStatus ==
    \A t \in Tasks :
        ev[t].caught =>
            \A i \in RunsOf(t) :
                checkStore[i].status = "completed" =>
                    /\ checkStore[i].output.summary
                          = DescribedFailure(ev[t].error).summary
                    /\ checkStore[i].output.text
                          = DescribedFailure(ev[t].error).text
                    /\ checkStore[i].output.text[Len(checkStore[i].output.text)]
                          = "Docs: docs/TROUBLESHOOTING.md"

\* a 404 whose message is not shown, in a completed check run
C27_Witness ==
    \E t \in Tasks :
        /\ ev[t].caught
        /\ ev[t].error = [status |-> 404, message |-> <<"fatal", " ", "fatal">>]
        /\ checkStore[ev[t].checkRunIds["CI/check"]].status = "completed"
        /\ checkStore[ev[t].checkRunIds["CI/check"]].output.summary
              = <<"Autofix failed: ", "app not installed or wrong repo/ref">>
        /\ "fatal" \notin WordsOf(checkStore[ev[t].checkRunIds["CI/check"]].output.text)

\* the names of task t for which no id is recorded
Missing(t) == {n \in {"CI/check", "CI/autofix"} : ev[t].checkRunIds[n] = 0}

\* the platform's run of name n
RunNamed(n) == checkStore[IF n = "CI/check" THEN 1 ELSE 2]

\* the handler of t has got past the finalization of its check runs
PastFinalization(t) ==
    \/ ev[t].pc = "comment"
    \/ ev[t].pc = "done" /\ ev[t].ended = "returned"

\* C28: after the creation loop, for a name with no recorded id no update
\* call is issued and the platform's run is left alone; the handler does
\* not crash unless an update that was issued has failed; and once it is
\* past the finalization every name with a recorded id is completed
C28_MissingIdIsSkipped ==
    \A t \in {u \in Tasks : ev[u].octokit} :
        /\ \A n \in Missing(t) :
              /\ ("checks.update:" \o n) \notin ev[t].calls
              /\ RunNamed(n).status = "in_progress"
              /\ RunNamed(n).updates = 0
        /\ ev[t].ended = "crashed" =>
              \E m \in {"CI/check", "CI/autofix"} \ Missing(t) :
                  ("checks.update:" \o m) \in ev[t].calls
        /\ PastFinalization(t) =>
              \A m \in {"CI/check", "CI/autofix"} \ Missing(t) :
                  /\ ("checks.update:" \o m) \in ev[t].calls
                  /\ RunNamed(m).status = "completed"

\* a handler that had no id for CI/check has completed CI/autofix from the
\* pipeline's result and gone on to the comment
C28_Witness ==
    \E t \in Tasks :
        /\ Missing(t) = {"CI/check"}
        /\ ev[t].pc = "comment"
        /\ ~ev[t].caught
        /\ ev[t].autofixResult # NullResult
        /\ RunNamed("CI/autofix").status = "completed"
        /\ RunNamed("CI/check").status = "in_progress"

\* the platform's runs that a request of task t created
CreatedBy(t) == {i \in 1..(2 * NumTasks) : checkStore[i].task = t}

\* C29: a call of createCheckRun that returned has made exactly one create
\* request; the request carried the input's owner, repo, name, head sha,
\* status and conclusion, and an output with the input's title and summary
\* and with its text or, when none was given, the empty text; and the id
\* returned is the one the platform gave the run
C29_OneCreateRequest ==
    \A t \in Tasks :
        (ev[t].pc = "done" /\ ev[t].ended = "returned") =>
            /\ Cardinality(CreatedBy(t)) = 1
            /\ ev[t].calls = {"checks.create:" \o ev[t].input.name}
            /\ \A i \in CreatedBy(t) :
                  /\ checkStore[i].owner = ev[t].input.owner
                  /\ checkStore[i].repo = ev[t].input.repo
                  /\ checkStore[i].name = ev[t].input.name
                  /\ checkStore[i].head_sha = ev[t].input.headSha
                  /\ checkStore[i].status = ev[t].input.status
                  /\ checkStore[i].conclusion = ev[t].input.conclusion
                  /\ checkStore[i].output.title = ev[t].input.output.title
                  /\ checkStore[i].output.summary = ev[t].input.output.summary
                  /\ checkStore[i].output.text =
                        IF ev[t].input.output.text = <<"undefined">>
                        THEN <<"">> ELSE ev[t].input.output.text
                  /\ ev[t].checkRunIds[ev[t].input.name] = i

\* a call without text and with a conclusion has returned the id of a run
\* whose output has the empty text
C29_Witness ==
    \E t \in Tasks :
        /\ ev[t].pc = "done"
        /\ ev[t].ended = "returned"
        /\ ev[t].input.output.text = <<"undefined">>
        /\ ev[t].checkRunIds["CI/autofix"] = 2
        /\ checkStore[2].name = "CI/autofix"
        /\ checkStore[2].status = "completed"
        /\ checkStore[2].conclusion = "success"
        /\ checkStore[2].output.text = <<"">>
        /\ checkStore[1].output.text = <<"details">>

\* the requests task t has issued that create or complete a check run
Creates(t) == ev[t].calls \cap {"checks.create:CI/check", "checks.create:CI/autofix"}
Updates(t) == ev[t].calls \cap {"checks.update:CI/check", "checks.update:CI/autofix"}

\* C30: in the handler of one event a later request is issued only when
\* the earlier step is over: a check run is created only with the
\* credential; the file list is fetched only with both check runs created;
\* settings are read only with the file list inspected; the pipeline
\* starts only with the settings read and the admin lookup, when one was
\* issued, answered; a check run is completed from the pipeline's result
\* only when the pipeline has returned; and a comment is attempted only
\* with both completion updates issued
C30_HandlerOrder ==
    \A t \in Tasks :
        /\ Creates(t) # {} => ev[t].octokit /\ ev[t].installationToken
        /\ "pulls.listFiles" \in ev[t].calls =>
              /\ Creates(t) = {"checks.create:CI/check", "checks.create:CI/autofix"}
              /\ ev[t].checkRunIds["CI/check"] # 0
              /\ ev[t].checkRunIds["CI/autofix"] # 0
        /\ "issues.listForRepo" \in ev[t].calls =>
              /\ "pulls.listFiles" \in ev[t].calls
              /\ ev[t].listed
        /\ "mkdtemp" \in ev[t].calls =>
              /\ "issues.listForRepo" \in ev[t].calls
              /\ ev[t].pc \notin {"settings", "settingsUpdate", "verifyAdmin"}
              /\ "repos.getCollaboratorPermissionLevel" \in ev[t].calls =>
                    ev[t].lookup # "none"
        /\ (Updates(t) # {} /\ ~ev[t].caught /\ "mkdtemp" \in ev[t].calls) =>
              /\ "ruff check ." \in ev[t].calls
              /\ ev[t].tempDir = "removed"
              /\ ev[t].autofixResult.summary # <<>>
        /\ (ev[t].pc \in {"completeCheck", "completeAutofix"}) =>
              /\ "mkdtemp" \in ev[t].calls
              /\ ev[t].tempDir = "removed"
        /\ "issues.createComment" \in ev[t].calls =>
              Updates(t) = {"checks.update:CI/check", "checks.update:CI/autofix"}

\* a handler that went through every step and attempts its comment
C30_Witness ==
    \E t \in Tasks :
        /\ ev[t].pc = "comment"
        /\ ~ev[t].caught
        /\ {"apps.createInstallationAccessToken", "checks.create:CI/check",
            "checks.create:CI/autofix", "pulls.listFiles", "issues.listForRepo",
            "repos.getCollaboratorPermissionLevel", "mkdtemp", "ruff check .",
            "checks.update:CI/check", "checks.update:CI/autofix",
            "issues.createComment"} \subseteq ev[t].calls

\* C31: however the handlers of one (pull request, head sha) pair overlap,
\* the pair gets at most one comment
C31_OneCommentUnderOverlap ==
    \A k \in {7} \X (1..NumShas) : comments[k] <= 1

\* C32: when black is configured in the cloned tree, no failure of the
\* secondary-formatter step (the presence check, the install on demand,
\* the run) aborts the pipeline: runAutofix never leaves its try block
\* with an error of that step
C32_SecondaryFormatterNotFatal ==
    \A t \in Tasks :
        ev[t].pc = "cleanupThrow" =>
            ev[t].error.message # <<"Command failed: python -m pip install black.">>

\* the pipeline of task t builds its result in this step
BuildsResult(t) == ev[t].pc = "verifyLint" /\ ev'[t].pc = "cleanupReturn"

\* C33: in the result runAutofix builds, hiddenFixesAvailable tells whether
\* the marker was in the output of the lint-fix or of the lint check of
\* the verification, with and without unsafe fixes; the conclusions and
\* appliedFixes are those of the exit codes and of the push, whatever the
\* marker
C33_HiddenFixesOnlyInSuffix ==
    [][\A t \in Tasks :
        BuildsResult(t) =>
            /\ ev'[t].autofixResult.hiddenFixesAvailable
                  = (ev[t].hidden \/ ev'[t].verifyHidden)
            /\ ev'[t].autofixResult.checkConclusion
                  = IF ev'[t].formatCheck = 0 /\ ev'[t].lintCheck = 0
                    THEN "success" ELSE "failure"
            /\ ev'[t].autofixResult.autofixConclusion = "success"
            /\ ev'[t].autofixResult.appliedFixes
                  = ("git push origin HEAD:feature" \in ev[t].calls)
            /\ ev'[t].autofixResult.unsafeFixesUsed = ev[t].enableUnsafeFixes
            /\ ev'[t].autofixResult.summary[1]
                  = IF ev'[t].autofixResult.checkConclusion = "failure"
                    THEN "Formatting completed, but lint checks still report issues."
                    ELSE IF ev'[t].autofixResult.appliedFixes
                    THEN "Applied Python formatting fixes."
                    ELSE "No formatting changes needed."]_vars

\* with unsafe fixes on, the marker was in the output of the verification,
\* and the result passed without applied fixes
C33_Witness ==
    \E t \in Tasks :
        /\ ev[t].pc = "cleanupReturn"
        /\ ev[t].enableUnsafeFixes
        /\ "ruff format ." \in ev[t].calls
        /\ ev[t].verifyHidden
        /\ ev[t].autofixResult.hiddenFixesAvailable
        /\ ev[t].autofixResult.checkConclusion = "success"
        /\ ~ev[t].autofixResult.appliedFixes

\* the handler of t has caught a top-level error
Caught(t) == ev[t].pc # "archived" /\ ev[t].caught

\* the requests of t that touch a check run
CheckRequests(t) ==
    ev[t].calls \cap {"checks.create:CI/check", "checks.create:CI/autofix",
                      "checks.update:CI/check", "checks.update:CI/autofix"}

C34_CaughtState ==
    \A t \in Tasks :
        Caught(t) =>
            /\ "issues.createComment" \in ev[t].calls => ev[t].octokit
            /\ ~ev[t].octokit =>
                  /\ CheckRequests(t) = {}
                  /\ \A i \in 1..(2 * NumTasks) : checkStore[i].task # t
                  /\ ev[t].pc = "done"
                  /\ ev[t].ended = "returned"
                  /\ ev[t].result = "error"
                  /\ ev[t].usage = <<"error">>
            /\ (ev[t].octokit /\ ev[t].pc = "done" /\ ev[t].ended = "returned"
                  /\ "issues.createComment" \notin ev[t].calls) =>
                  lastCommentedShaByPull[7] = ev[t].context.headSha

\* the step in which the credential is refused changes neither the check
\* runs nor the comments nor the ledger
C34_RefusedStep ==
    \A t \in Tasks :
        (ev[t].pc = "token" /\ ev'[t].caught) =>
            /\ ~ev'[t].octokit
            /\ checkStore' = checkStore
            /\ comments' = comments
            /\ lastCommentedShaByPull' = lastCommentedShaByPull

C35_OneCompletionUpdate ==
    \A i \in 1..(2 * NumTasks) : checkStore[i].updates <= 1

\* the handler of t gets the answer to its comment request in this step
CommentSettles(t) == ev[t].pc = "comment" /\ ev'[t].pc # "comment"

\* a handler that ended its result path with a result that warrants a
\* comment, without attempting one, found the head sha in the ledger
C36_SkippedOnlyForLedger ==
    \A t \in Tasks :
        (/\ ev[t].pc = "done"
         /\ ~ev[t].caught
         /\ ev[t].autofixResult.appliedFixes
               \/ ev[t].autofixResult.checkConclusion = "failure"
         /\ "issues.createComment" \notin ev[t].calls) =>
            lastCommentedShaByPull[7] = ev[t].context.headSha

\* the ledger changes only when a comment was posted, to the head sha of
\* that comment; whether the post succeeds or fails the handler returns
\* with the same outcome and the check runs are left alone
C36_SettleStep ==
    /\ lastCommentedShaByPull' # lastCommentedShaByPull =>
          \E t \in Tasks :
              /\ CommentSettles(t)
              /\ comments'[<<7, ev[t].context.headSha>>]
                    = comments[<<7, ev[t].context.headSha>>] + 1
              /\ lastCommentedShaByPull'[7] = ev[t].context.headSha
    /\ \A t \in Tasks :
          CommentSettles(t) =>
              /\ ev'[t].pc = "done"
              /\ ev'[t].ended = "returned"
              /\ ev'[t].result =
                    IF ev[t].caught THEN "error"
                    ELSE IF ev[t].autofixResult.checkConclusion = "failure"
                    THEN "completed_failure" ELSE "completed_success"
              /\ checkStore' = checkStore
              /\ comments' = comments =>
                    lastCommentedShaByPull' = lastCommentedShaByPull

\* C36: the ledger entry of a pull request is set to a head sha only when
\* the comment post for that sha succeeded; a failed post is swallowed, the
\* handler returns with the same outcome, the check runs and the ledger are
\* unchanged, and a later event for the head sha attempts the comment again
C36_LedgerOnlyAfterPost == [](C36_SkippedOnlyForLedger) /\ [][C36_SettleStep]_vars

\* the run before applied fixes and its comment post failed; the handler
\* of the next delivery for the head sha attempts the comment
C36_Witness ==
    \E t, u \in Tasks :
        /\ ev[u].pc = "archived"
        /\ ev[u].appliedFixes
        /\ ev[u].context.headSha = 1
        /\ comments[<<7, 1>>] = 0
        /\ lastCommentedShaByPull[7] = 0
        /\ ev[t].pc = "comment"
        /\ ev[t].context.headSha = 1
        /\ "issues.createComment" \in ev[t].calls

\* C37: the outcome of every usage record emitted is one of
\* check_create_failed, skipped_no_python, completed_success,
\* completed_failure and error, never the initial value started
C37_UsageNamesOutcome ==
    \A t \in Tasks :
        \A i \in 1..Len(ev[t].usage) :
            ev[t].usage[i] \in {"check_create_failed", "skipped_no_python",
                                "completed_success", "completed_failure", "error"}

\* the body of the settings issue carries enabler and timestamp
Backfilled ==
    /\ settingsIssue.exists
    /\ settingsIssue.body.kind = "object"
    /\ settingsIssue.body.enableUnsafeFixes = "true"
    /\ settingsIssue.body.unsafeFixesEnabledBy # ""
    /\ settingsIssue.body.unsafeFixesEnabledAt # ""

\* the handler of t gets the issue list in this step
ReadsIssue(t) ==
    /\ ev[t].pc = "settings"
    /\ ev'[t].pc # "settings"
    /\ ev'[t].issue.exists

\* a handler whose backfill was accepted holds the settings it wrote
C38_WrittenIsReturned ==
    \A t \in Tasks :
        (/\ "issues.update" \in ev[t].calls
         /\ ev[t].pc \notin {"settingsUpdate", "archived"}
         /\ ~ev[t].caught
         /\ ev[t].body = settingsIssue.body) =>
            /\ Backfilled
            /\ ev[t].settings =
                  [enableUnsafeFixes |-> TRUE,
                   unsafeFixesEnabledBy |-> settingsIssue.body.unsafeFixesEnabledBy,
                   unsafeFixesEnabledAt |-> settingsIssue.body.unsafeFixesEnabledAt]

\* a read of an issue whose body carries enabler and timestamp issues no
\* update, leaves the issue as it is and returns the settings of the body
C38_ReadStep ==
    \A t \in Tasks :
        (Backfilled /\ ReadsIssue(t)) =>
            /\ "issues.update" \notin ev'[t].calls
            /\ ev'[t].pc # "settingsUpdate"
            /\ settingsIssue' = settingsIssue
            /\ ev'[t].settings =
                  [enableUnsafeFixes |-> TRUE,
                   unsafeFixesEnabledBy |-> settingsIssue.body.unsafeFixesEnabledBy,
                   unsafeFixesEnabledAt |-> settingsIssue.body.unsafeFixesEnabledAt]

\* C38: once the adapter has rewritten the body of the settings issue with
\* enabler and timestamp, every later read of the unchanged issue (a read
\* whose list call returned) issues no update call and returns the
\* settings the rewriting read returned
C38_BackfillIdempotent == [](C38_WrittenIsReturned) /\ [][C38_ReadStep]_vars

\* the body was rewritten by an earlier run, and the handler of a later
\* delivery has read the issue without an update
C38_Witness ==
    \E t \in Tasks :
        /\ Backfilled
        /\ settingsIssue.body.unsafeFixesEnabledBy = "alice"
        /\ settingsIssue.body.unsafeFixesEnabledAt = "2024-01-01T00:00:00Z"
        /\ ev[t].pc = "verifyAdmin"
        /\ ev[t].issue = settingsIssue
        /\ ev[t].settings.unsafeFixesEnabledBy = "alice"
        /\ "issues.update" \notin ev[t].calls

\* the push of task t has landed on the head ref
HasLanded(t) ==
    {"git push origin HEAD:feature", "ruff format --check ."} \subseteq ev[t].calls

\* the push of task t was rejected
PushRejected(t) ==
    /\ "git push origin HEAD:feature" \in ev[t].calls
    /\ ev[t].pc # "push"
    /\ ~HasLanded(t)

\* the check run of task t named n
OwnRun(t, n) == checkStore[IF n = "CI/check" THEN 2 * t - 1 ELSE 2 * t]

C39_RejectedState ==
    /\ \A t, u \in Tasks :
          (t # u /\ HasLanded(t) /\ HasLanded(u)) => ev[t].base # ev[u].base
    /\ \A t \in Tasks :
          PushRejected(t) =>
              /\ ev[t].autofixResult.summary = <<>>
              /\ ~ev[t].autofixResult.appliedFixes
              /\ ~ev[t].appliedFixes
              /\ "ruff check ." \notin ev[t].calls
              /\ "rm" \in ev[t].calls
              /\ ev[t].pc = "cleanupThrow" \/ ev[t].caught
              /\ ev[t].caught =>
                    \/ /\ ev[t].tempDir = "removed"
                       /\ ev[t].error.message = <<"Command failed: git push.">>
                    \/ ev[t].error.message = <<"rm failed">>
              /\ \A n \in {"CI/check", "CI/autofix"} :
                    /\ OwnRun(t, n).status = "completed" =>
                          OwnRun(t, n).conclusion = "failure"
                    /\ (ev[t].pc = "done" /\ ev[t].ended = "returned") =>
                          /\ OwnRun(t, n).status = "completed"
                          /\ ev[t].result = "error"

\* the push of a clone that is behind the head ref is rejected
C39_StalePushStep ==
    \A t \in Tasks :
        (/\ ev[t].pc = "push"
         /\ ev'[t].pc # "push"
         /\ \E u \in Tasks \ {t} : HasLanded(u) /\ ev[u].base = ev[t].base) =>
            /\ ev'[t].pc = "cleanupThrow"
            /\ ev'[t].error.message = <<"Command failed: git push.">>
            /\ ~ev'[t].appliedFixes

====
